---------------------------- MODULE Spec2Model ----------------------------
(***************************************************************************)
(* State-machine model of calculate_semantic_change.py: the per-word       *)
(* filter / dedupe / pool / cluster / divergence pipeline and the          *)
(* overwrite-on-every-word persistence of its results; and of three parts  *)
(* of finetuning_BERT_on_semeval_corpora.py: truncate_sequences, the       *)
(* checkpoint rotation and the loops of train.                             *)
(*                                                                         *)
(* Strings that the program inspects character by character (target words  *)
(* and sentences) are sequences of one-character strings.  Floating point  *)
(* scores are fixed-point integers: divergences in 1e-6 nat, cosine        *)
(* distances in 1e-3.  An embedding is a 2-dimensional integer vector.     *)
(***************************************************************************)
EXTENDS Integers, Sequences, FiniteSets, TLC

VARIABLES
    pc,                     \* position of the script
    exc,                    \* exception that ended the run, or "none"
    argv_language,          \* --language as given on the command line
    oneEmbPerSentence,      \* --one_embedding_per_sentence
    pickle_file,            \* content of the file at --embeddings_path
    bert_embeddings,        \* the loaded mapping, NotLoaded before line 118
    target_words,
    i,                      \* number of the current word, as printed (i+1)
    word, emb,
    embeddings1, embeddings2, texts1, texts2,
    average_dist,
    clusters1_aff, clusters2_aff, aff_prop_centroids, n_senses, aff_prop_jsd,
    preference,             \* the preference of the last AffinityPropagation
    clusters1_km5, clusters2_km5, kmeans_5_centroids, kmeans5_jsd,
    clusters1_km7, clusters2_km7, kmeans_7_centroids, kmeans7_jsd,
    results_dict, sentence_dict,
    aff_prop_labels_dict, aff_prop_centroids_dict,
    kmeans_5_labels_dict, kmeans_5_centroids_dict,
    kmeans_7_labels_dict, kmeans_7_centroids_dict,
    fs,                     \* the files of results_dir
    \* finetuning_BERT_on_semeval_corpora.py
    ids, pair_ids,          \* arguments of truncate_sequences
    num_tokens_to_remove, truncation_strategy, stride,
    truncated,              \* what truncate_sequences returned
    train_args,             \* args of train as given on the command line
    len_train_dataloader,   \* number of batches of one epoch
    args_output_dir,        \* the entries checkpoint-* of args.output_dir
    num_train_epochs,       \* args.num_train_epochs, rewritten at line 520
    t_total,
    global_step, epochs_trained, steps_trained_in_current_epoch,
    epoch, step,            \* the values of the two loop iterators
    output_dir,             \* step number of the checkpoint being saved
    checkpoints_to_be_deleted,
    optimizer_steps,        \* number of calls of optimizer.step()
    skipped_batches,        \* number of batches passed over at line 616
    optimizer_pt            \* checkpoints that hold optimizer.pt, scheduler.pt

args    == <<argv_language, oneEmbPerSentence, pickle_file>>
loaded  == <<bert_embeddings, target_words>>
cursor  == <<i, word, emb>>
pooled  == <<embeddings1, embeddings2, texts1, texts2>>
affvars == <<clusters1_aff, clusters2_aff, aff_prop_centroids, n_senses,
             aff_prop_jsd, preference>>
km5vars == <<clusters1_km5, clusters2_km5, kmeans_5_centroids, kmeans5_jsd>>
km7vars == <<clusters1_km7, clusters2_km7, kmeans_7_centroids, kmeans7_jsd>>
labdicts == <<aff_prop_labels_dict, aff_prop_centroids_dict,
              kmeans_5_labels_dict, kmeans_5_centroids_dict,
              kmeans_7_labels_dict, kmeans_7_centroids_dict>>
pipeline == <<args, loaded, cursor, pooled, average_dist, affvars, km5vars,
              km7vars, results_dict, sentence_dict, labdicts, fs>>
truncvars == <<ids, pair_ids, num_tokens_to_remove, truncation_strategy,
               stride, truncated>>
trainvars == <<train_args, len_train_dataloader, args_output_dir,
               num_train_epochs, t_total, global_step, epochs_trained,
               steps_trained_in_current_epoch, epoch, step, output_dir,
               checkpoints_to_be_deleted, optimizer_steps, skipped_batches,
               optimizer_pt>>
finetuning == <<truncvars, trainvars>>
vars == <<pc, exc, pipeline, finetuning>>

-----------------------------------------------------------------------------
(* Generic helpers *)

Range(s) == {s[k] : k \in DOMAIN s}

Min(a, b) == IF a <= b THEN a ELSE b

\* the first n elements of the endless repetition of the pattern pat
Cycle(pat, n) == [k \in 1..n |-> pat[((k - 1) % Len(pat)) + 1]]

RECURSIVE SumSeq(_)
SumSeq(s) == IF s = <<>> THEN 0 ELSE s[1] + SumSeq(Tail(s))

\* number of entries of the sequence s equal to x (collections.Counter)
Count(s, x) == Cardinality({k \in DOMAIN s : s[k] = x})

\* a finite set of integers as an increasing sequence
RECURSIVE SortedSeq(_)
SortedSeq(S) ==
    IF S = {} THEN <<>>
    ELSE LET m == CHOOSE x \in S : \A y \in S : x <= y
         IN <<m>> \o SortedSeq(S \ {m})

\* the distinct entries of s in the order of their first appearance
RECURSIVE DistinctInOrder(_)
DistinctInOrder(s) ==
    IF s = <<>> THEN <<>>
    ELSE LET r == DistinctInOrder(SubSeq(s, 1, Len(s) - 1))
         IN IF s[Len(s)] \in Range(r) THEN r ELSE Append(r, s[Len(s)])

IndexOf(s, x) == CHOOSE k \in DOMAIN s : s[k] = x

-----------------------------------------------------------------------------
(* Bounds of the explored inputs *)

\* the longest time slice of an explored word record
MaxOcc == 5

\* bert_embeddings before line 118
NotLoaded == [loaded |-> FALSE]
\* the float nan: no score of the program is negative
NaN       == 0 - 1000000000

\* target words, as character sequences: "ab_nn", "ab_vb", "ab"
W_ab_nn == <<"a", "b", "_", "n", "n">>
W_ab_vb == <<"a", "b", "_", "v", "b">>
W_ab    == <<"a", "b">>

\* sentences: "ab c", "c ab", "ab", "abc ab" contain the token ab;
\* "cab" and "abc" contain it only inside a longer token
S_ab_c   == <<"a", "b", " ", "c">>
S_c_ab   == <<"c", " ", "a", "b">>
S_ab     == <<"a", "b">>
S_abc_ab == <<"a", "b", "c", " ", "a", "b">>
S_cab    == <<"c", "a", "b">>
S_abc    == <<"a", "b", "c">>

\* embedding vectors
E1 == <<1, 0>>
E2 == <<0, 1>>
EZ == <<0, 0>>


\* sentence patterns of a slice
TP_all  == <<S_ab_c, S_c_ab, S_ab, S_abc_ab>>
TP_mix  == <<S_ab_c, S_cab, S_c_ab, S_ab_c, S_ab, S_abc_ab>>
TP_none == <<S_cab, S_abc>>

Slice(n_emb, emb_pat, n_text, text_pat) ==
    [emb |-> Cycle(emb_pat, n_emb), text |-> Cycle(text_pat, n_text)]

SliceA         == Slice(MaxOcc, <<E1, E2>>, MaxOcc, TP_mix)
SliceB         == Slice(MaxOcc - 1, <<E1>>, MaxOcc - 1, TP_all)
SliceZero      == Slice(MaxOcc - 1, <<EZ>>, MaxOcc - 1, TP_all)
SliceShort     == Slice(2, <<E2, E1>>, 2, TP_all)
SliceNoMatch   == Slice(2, <<E1>>, 2, TP_none)
SliceEmpty     == Slice(0, <<E1>>, 0, TP_all)
SliceMoreTexts == Slice(MaxOcc - 1, <<E1, E2>>, MaxOcc, TP_all)
SliceMoreEmbs  == Slice(MaxOcc, <<E1, E2>>, MaxOcc - 1, TP_all)

\* slices whose embeddings are all different, within and across the two
EP_unit   == << <<1, 0>>, <<0, 1>>, <<0 - 1, 0>>, <<0, 0 - 1>>,
               <<1, 1>>, <<0 - 1, 0 - 1>>, <<1, 0 - 1>>, <<0 - 1, 1>> >>
EP_double == << <<2, 0>>, <<0, 2>>, <<0 - 2, 0>>, <<0, 0 - 2>>,
               <<2, 2>>, <<0 - 2, 0 - 2>>, <<2, 0 - 2>>, <<0 - 2, 2>> >>
SliceManyX == Slice(MaxOcc, EP_unit, MaxOcc, TP_all)
SliceManyY == Slice(MaxOcc, EP_double, MaxOcc, TP_all)

RecordKeys == {"t1", "t1_text", "t2", "t2_text"}

\* the record of one word: embeddings and sentences of the two time slices
Rec(s1, s2) ==
    [k \in RecordKeys |->
        CASE k = "t1"      -> s1.emb
          [] k = "t1_text" -> s1.text
          [] k = "t2"      -> s2.emb
          [] k = "t2_text" -> s2.text]

WithoutKey(rec, key) == [k \in (DOMAIN rec) \ {key} |-> rec[k]]

Records ==
    { Rec(SliceA, SliceB), Rec(SliceB, SliceA), Rec(SliceB, SliceB),
      Rec(SliceA, SliceA), Rec(SliceZero, SliceB),
      Rec(SliceShort, SliceB), Rec(SliceShort, SliceShort),
      Rec(SliceNoMatch, SliceB), Rec(SliceB, SliceNoMatch),
      Rec(SliceEmpty, SliceB),
      Rec(SliceMoreTexts, SliceB), Rec(SliceMoreEmbs, SliceB),
      Rec(SliceB, SliceMoreEmbs),
      Rec(SliceManyX, SliceManyY),
      WithoutKey(Rec(SliceB, SliceB), "t2"),
      WithoutKey(Rec(SliceB, SliceB), "t1_text") }

\* insertion-ordered keys of the explored embedding files
KeyLists == { <<W_ab_nn, W_ab_vb>>, <<W_ab>> }

\* the explored embedding files: an insertion-ordered mapping word -> record
PickleFiles ==
    UNION { { [keys |-> ks, val |-> f] : f \in [Range(ks) -> Records] }
            : ks \in KeyLists }

\* the explored values of --language; "all" is what a bare --language gives
LanguageArgs == {"english", "german", "french", "all"}

-----------------------------------------------------------------------------
(* Text matching, lines 143 and 155 *)

\* \w of the regular expression
IsWordChar(c) == c \in {"a", "b", "c", "n", "v", "_"}

StartsWith(s, pat) ==
    /\ Len(pat) <= Len(s)
    /\ SubSeq(s, 1, Len(pat)) = pat

\* str.replace(pat, ""): leftmost non-overlapping occurrences are removed
RECURSIVE Remove(_, _)
Remove(s, pat) ==
    IF s = <<>> THEN <<>>
    ELSE IF StartsWith(s, pat)
         THEN Remove(SubSeq(s, Len(pat) + 1, Len(s)), pat)
         ELSE <<s[1]>> \o Remove(Tail(s), pat)

\* the literal between the two \b of the pattern of line 143
regex(w) == Remove(Remove(w, <<"_", "v", "b">>), <<"_", "n", "n">>)

\* \b at the gap before position p of text (p in 1..Len(text)+1)
WordBoundary(text, p) ==
    LET before == IF p > 1 THEN IsWordChar(text[p - 1]) ELSE FALSE
        after  == IF p <= Len(text) THEN IsWordChar(text[p]) ELSE FALSE
    IN before # after

MatchAt(lit, text, p) ==
    /\ p + Len(lit) - 1 <= Len(text)
    /\ SubSeq(text, p, p + Len(lit) - 1) = lit
    /\ WordBoundary(text, p)
    /\ WordBoundary(text, p + Len(lit))

\* variant: a search for the literal without the two \b
re_search_substring(lit, text) ==
    \E p \in 1..Len(text) :
        /\ p + Len(lit) - 1 <= Len(text)
        /\ SubSeq(text, p, p + Len(lit) - 1) = lit

\* re.search(r"\b<lit>\b", text) finds a match
re_search(lit, text) == \E p \in 1..Len(text) : MatchAt(lit, text, p)

-----------------------------------------------------------------------------
(* The filter loop of one word, lines 138-169 *)

\* variant: text_seen is carried over from the previous time slice
text_seen_carried(previous) == previous

\* line 147: every time slice starts with an empty text_seen
text_seen_init(previous) == {}

\* variant: the loop stops quietly where the shorter sequence ends (zip)
RECURSIVE FilterFromZip(_, _, _, _, _, _)
FilterFromZip(rec, ts, lit, dedupe, idx, acc) ==
    LET ts_text == IF ts = "t1" THEN "t1_text" ELSE "t2_text" IN
    IF idx > Len(rec[ts]) THEN acc
    ELSE IF ts_text \notin DOMAIN rec THEN [acc EXCEPT !.exc = "KeyError"]
    ELSE IF idx > Len(rec[ts_text]) THEN acc
    ELSE LET e    == rec[ts][idx]
             text == rec[ts_text][idx]
         IN IF ~ re_search(lit, text)
            THEN FilterFromZip(rec, ts, lit, dedupe, idx + 1, acc)
            ELSE IF dedupe /\ text \in acc.text_seen
            THEN FilterFromZip(rec, ts, lit, dedupe, idx + 1, acc)
            ELSE FilterFromZip(rec, ts, lit, dedupe, idx + 1,
                    [acc EXCEPT !.embeddings = Append(@, e),
                                !.texts = Append(@, text),
                                !.text_seen = IF dedupe THEN @ \cup {text}
                                              ELSE @])

\* variant: a repeated sentence is recorded again, without its embedding
RECURSIVE FilterFromTextRepeated(_, _, _, _, _, _)
FilterFromTextRepeated(rec, ts, lit, dedupe, idx, acc) ==
    LET ts_text == IF ts = "t1" THEN "t1_text" ELSE "t2_text" IN
    IF idx > Len(rec[ts]) THEN acc
    ELSE IF ts_text \notin DOMAIN rec THEN [acc EXCEPT !.exc = "KeyError"]
    ELSE IF idx > Len(rec[ts_text]) THEN [acc EXCEPT !.exc = "IndexError"]
    ELSE LET e    == rec[ts][idx]
             text == rec[ts_text][idx]
         IN IF ~ re_search(lit, text)
            THEN FilterFromTextRepeated(rec, ts, lit, dedupe, idx + 1, acc)
            ELSE IF dedupe /\ text \in acc.text_seen
            THEN FilterFromTextRepeated(rec, ts, lit, dedupe, idx + 1,
                    [acc EXCEPT !.texts = Append(@, text)])
            ELSE FilterFromTextRepeated(rec, ts, lit, dedupe, idx + 1,
                    [acc EXCEPT !.embeddings = Append(@, e),
                                !.texts = Append(@, text),
                                !.text_seen = IF dedupe THEN @ \cup {text}
                                              ELSE @])

\* variant: a kept sentence is put at the front of its list
RECURSIVE FilterFromTextsPrepended(_, _, _, _, _, _)
FilterFromTextsPrepended(rec, ts, lit, dedupe, idx, acc) ==
    LET ts_text == IF ts = "t1" THEN "t1_text" ELSE "t2_text" IN
    IF idx > Len(rec[ts]) THEN acc
    ELSE IF ts_text \notin DOMAIN rec THEN [acc EXCEPT !.exc = "KeyError"]
    ELSE IF idx > Len(rec[ts_text]) THEN [acc EXCEPT !.exc = "IndexError"]
    ELSE LET e    == rec[ts][idx]
             text == rec[ts_text][idx]
         IN IF ~ re_search(lit, text)
            THEN FilterFromTextsPrepended(rec, ts, lit, dedupe, idx + 1, acc)
            ELSE IF dedupe /\ text \in acc.text_seen
            THEN FilterFromTextsPrepended(rec, ts, lit, dedupe, idx + 1, acc)
            ELSE FilterFromTextsPrepended(rec, ts, lit, dedupe, idx + 1,
                    [acc EXCEPT !.embeddings = Append(@, e),
                                !.texts = <<text>> \o @,
                                !.text_seen = IF dedupe THEN @ \cup {text}
                                              ELSE @])

\* one pass of the body of the idx loop (lines 151-169) from idx on;
\* acc holds the lists built so far, text_seen and the exception raised
RECURSIVE FilterFrom(_, _, _, _, _, _)
FilterFrom(rec, ts, lit, dedupe, idx, acc) ==
    LET ts_text == IF ts = "t1" THEN "t1_text" ELSE "t2_text" IN
    IF idx > Len(rec[ts]) THEN acc
    ELSE IF ts_text \notin DOMAIN rec THEN [acc EXCEPT !.exc = "KeyError"]
    ELSE IF idx > Len(rec[ts_text]) THEN [acc EXCEPT !.exc = "IndexError"]
    ELSE LET e    == rec[ts][idx]
             text == rec[ts_text][idx]
         IN IF ~ re_search(lit, text)
            THEN FilterFrom(rec, ts, lit, dedupe, idx + 1, acc)
            ELSE IF dedupe /\ text \in acc.text_seen
            THEN FilterFrom(rec, ts, lit, dedupe, idx + 1, acc)
            ELSE FilterFrom(rec, ts, lit, dedupe, idx + 1,
                    [acc EXCEPT !.embeddings = Append(@, e),
                                !.texts = Append(@, text),
                                !.text_seen = IF dedupe THEN @ \cup {text}
                                              ELSE @])

\* the idx loop of one time slice (lines 147-169)
FilterSlice(rec, ts, lit, dedupe, previous_seen) ==
    LET start == [exc |-> "none", embeddings |-> <<>>, texts |-> <<>>,
                  text_seen |-> text_seen_init(previous_seen)]
    IN IF ts \notin DOMAIN rec THEN [start EXCEPT !.exc = "KeyError"]
       ELSE FilterFrom(rec, ts, lit, dedupe, 1, start)

\* the loop over both time slices (lines 143-169)
FilterWord(rec, w, dedupe) ==
    LET r1 == FilterSlice(rec, "t1", regex(w), dedupe, {})
        r2 == FilterSlice(rec, "t2", regex(w), dedupe, r1.text_seen)
    IN IF r1.exc # "none"
       THEN [exc |-> r1.exc, e1 |-> r1.embeddings, x1 |-> r1.texts,
             e2 |-> <<>>, x2 |-> <<>>]
       ELSE [exc |-> r2.exc, e1 |-> r1.embeddings, x1 |-> r1.texts,
             e2 |-> r2.embeddings, x2 |-> r2.texts]

-----------------------------------------------------------------------------
(* Distance and divergence primitives, lines 18-24 and 70-94 *)

\* round(ln(n) * 1e6) for n = 1..100
ln_micro ==
    << 0, 693147, 1098612, 1386294, 1609438, 1791759, 1945910, 2079442,
       2197225, 2302585, 2397895, 2484907, 2564949, 2639057, 2708050,
       2772589, 2833213, 2890372, 2944439, 2995732, 3044522, 3091042,
       3135494, 3178054, 3218876, 3258097, 3295837, 3332205, 3367296,
       3401197, 3433987, 3465736, 3496508, 3526361, 3555348, 3583519,
       3610918, 3637586, 3663562, 3688879, 3713572, 3737670, 3761200,
       3784190, 3806662, 3828641, 3850148, 3871201, 3891820, 3912023,
       3931826, 3951244, 3970292, 3988984, 4007333, 4025352, 4043051,
       4060443, 4077537, 4094345, 4110874, 4127134, 4143135, 4158883,
       4174387, 4189655, 4204693, 4219508, 4234107, 4248495, 4262680,
       4276666, 4290459, 4304065, 4317488, 4330733, 4343805, 4356709,
       4369448, 4382027, 4394449, 4406719, 4418841, 4430817, 4442651,
       4454347, 4465908, 4477337, 4488636, 4499810, 4510860, 4521789,
       4532599, 4543295, 4553877, 4564348, 4574711, 4584967, 4595120,
       4605170 >>

\* the error, in 1e-6, of a difference of two rounded table entries, and so of
\* a weighted mean of such differences: the rounding error of line 24
jsd_tolerance == 1

\* A float array whose k-th entry is num[k]/den is [num |-> .., den |-> ..];
\* den = 0 stands for the array of nan that a division by a zero sum gives.
DivideBySum(num) == [num |-> num, den |-> SumSeq(num)]

IsNaNArray(p) == p.den = 0

\* variant: the mixture is p + q, not halved
RelEntrTermUnhalved(x, c) ==
    IF x = 0 THEN 0 ELSE x * (ln_micro[x] - ln_micro[c])

\* x * ln(2x / c) in 1e-6, the term of scipy's entropy(p, m); 0 when p = 0
RelEntrTerm(x, c) ==
    IF x = 0 THEN 0 ELSE x * (ln_micro[2 * x] - ln_micro[c])

\* variant: entropy(p, m) alone
compute_jsd_one_sided(p_in, q_in) ==
    IF IsNaNArray(p_in) \/ IsNaNArray(q_in) THEN NaN
    ELSE LET p == DivideBySum(p_in.num)
             q == DivideBySum(q_in.num)
         IN IF IsNaNArray(p) \/ IsNaNArray(q) THEN NaN
            ELSE LET A == p.den
                     B == q.den
                     c(k) == p.num[k] * B + q.num[k] * A
                     terms == [k \in DOMAIN p.num |->
                                 RelEntrTerm(p.num[k] * B, c(k))]
                 IN SumSeq(terms) \div (A * B)

\* variant: the two entropies are added and not halved
compute_jsd_sum(p_in, q_in) ==
    IF IsNaNArray(p_in) \/ IsNaNArray(q_in) THEN NaN
    ELSE LET p == DivideBySum(p_in.num)
             q == DivideBySum(q_in.num)
         IN IF IsNaNArray(p) \/ IsNaNArray(q) THEN NaN
            ELSE LET A == p.den
                     B == q.den
                     c(k) == p.num[k] * B + q.num[k] * A
                     terms == [k \in DOMAIN p.num |->
                                 RelEntrTerm(p.num[k] * B, c(k))
                               + RelEntrTerm(q.num[k] * A, c(k))]
                 IN SumSeq(terms) \div (A * B)

\* lines 18-24; p /= p.sum() renormalises num[k]/den to num[k]/sum(num)
compute_jsd(p_in, q_in) ==
    IF IsNaNArray(p_in) \/ IsNaNArray(q_in) THEN NaN
    ELSE LET p == DivideBySum(p_in.num)
             q == DivideBySum(q_in.num)
         IN IF IsNaNArray(p) \/ IsNaNArray(q) THEN NaN
            ELSE LET A == p.den
                     B == q.den
                     c(k) == p.num[k] * B + q.num[k] * A
                     terms == [k \in DOMAIN p.num |->
                                 RelEntrTerm(p.num[k] * B, c(k))
                               + RelEntrTerm(q.num[k] * A, c(k))]
                 IN SumSeq(terms) \div (2 * A * B)

\* variant: only the labels of the first slice are indexed
label_senses_first(labels1, labels2) == SortedSeq(Range(labels1))

\* lines 79 and 82: n_senses = list(set(labels_all))
label_senses(labels1, labels2) == SortedSeq(Range(labels1 \o labels2))

\* variant: the last label of the slice is not counted
count_vector_short(labels, senses) ==
    [k \in DOMAIN senses |->
        Count(SubSeq(labels, 1, Len(labels) - 1), senses[k])]

\* lines 80-81 and 85-86: np.array([counts[i] for i in n_senses])
count_vector(labels, senses) ==
    [k \in DOMAIN senses |-> Count(labels, senses[k])]

\* lines 78-94
compute_divergence_from_cluster_labels(labels1, labels2) ==
    LET senses  == label_senses(labels1, labels2)
        t1      == count_vector(labels1, senses)
        t2      == count_vector(labels2, senses)
        t1_dist == DivideBySum(t1)
        t2_dist == DivideBySum(t2)
    IN compute_jsd(t1_dist, t2_dist)

RECURSIVE VecSum(_)
VecSum(vs) ==
    IF vs = <<>> THEN <<0, 0>>
    ELSE LET r == VecSum(Tail(vs)) IN <<vs[1][1] + r[1], vs[1][2] + r[2]>>

Isqrt(v) == CHOOSE r \in 0..1000 : r * r <= v /\ v < (r + 1) * (r + 1)

\* sklearn cosine_similarity of two vectors in 1e-3; a zero vector is left
\* unnormalised and has similarity 0 with everything
cosine_similarity(a, b) ==
    LET dot == a[1] * b[1] + a[2] * b[2]
        na  == a[1] * a[1] + a[2] * a[2]
        nb  == b[1] * b[1] + b[2] * b[2]
    IN IF na = 0 \/ nb = 0 THEN 0
       ELSE IF dot >= 0 THEN Isqrt((dot * dot * 1000000) \div (na * nb))
       ELSE 0 - Isqrt((dot * dot * 1000000) \div (na * nb))

\* variant: nothing is rejected, the cosine of a nan or zero mean is nan
compute_averaged_embedding_dist_unguarded(t1_embeddings, t2_embeddings) ==
    IF t1_embeddings = <<>> \/ t2_embeddings = <<>>
       \/ VecSum(t1_embeddings) = <<0, 0>> \/ VecSum(t2_embeddings) = <<0, 0>>
    THEN [exc |-> "none", dist |-> NaN]
    ELSE [exc |-> "none",
          dist |-> 1000 - cosine_similarity(VecSum(t1_embeddings),
                                            VecSum(t2_embeddings))]

\* lines 70-75.  np.mean of an empty array is the scalar nan, which
\* cosine_similarity rejects with a ValueError.  The cosine does not depend
\* on the length of its arguments, so each mean is represented by the sum.
compute_averaged_embedding_dist(t1_embeddings, t2_embeddings) ==
    IF t1_embeddings = <<>> \/ t2_embeddings = <<>>
    THEN [exc |-> "ValueError", dist |-> NaN]
    ELSE [exc |-> "none",
          dist |-> 1000 - cosine_similarity(VecSum(t1_embeddings),
                                            VecSum(t2_embeddings))]

-----------------------------------------------------------------------------
(* Clustering strategies, lines 27-51.  The library calls are modelled by  *)
(* their contract on the explored inputs, whose points take at most three  *)
(* distinct values.                                                        *)

\* an optional argument: None, or a given value
None       == [given |-> FALSE, value |-> 0]
Given(v)   == [given |-> TRUE, value |-> v]

\* line 132
aff_prop_pref == 0 - 430

\* line 184: the call passes the embeddings only, so that the parameter
\* preference of line 27 takes its default
aff_prop_call_preference == None

\* what AffinityPropagation().fit can answer
AffPropOutcomes == {"by_value", "single", "not_converged"}

\* lines 27-36
cluster_word_embeddings_aff_prop(word_embeddings, outcome) ==
    LET distinct == DistinctInOrder(word_embeddings)
        n == Len(word_embeddings)
    IN CASE outcome = "by_value" ->
              [labels |-> [k \in 1..n |-> IndexOf(distinct, word_embeddings[k]) - 1],
               exemplars |-> distinct]
         [] outcome = "single" ->
              [labels |-> [k \in 1..n |-> 0],
               exemplars |-> <<word_embeddings[1]>>]
         [] outcome = "not_converged" ->
              [labels |-> [k \in 1..n |-> 0 - 1],
               exemplars |-> <<>>]

\* variant: KMeans also refuses as many samples as clusters
cluster_word_embeddings_k_means_strict(word_embeddings, k) ==
    LET distinct == DistinctInOrder(word_embeddings)
        n == Len(word_embeddings)
    IN IF n <= k
       THEN [exc |-> "ValueError", labels |-> <<>>, exemplars |-> <<>>]
       ELSE [exc |-> "none",
             labels |-> [j \in 1..n |->
                 Min(IndexOf(distinct, word_embeddings[j]), k) - 1],
             exemplars |-> Cycle(distinct, k)]

\* variant: the seed is not fixed; the numbering of the clusters starts at
\* the index of the word
cluster_word_embeddings_k_means_unseeded(word_embeddings, k) ==
    LET distinct == DistinctInOrder(word_embeddings)
        n == Len(word_embeddings)
    IN IF n < k
       THEN [exc |-> "ValueError", labels |-> <<>>, exemplars |-> <<>>]
       ELSE [exc |-> "none",
             labels |-> [j \in 1..n |->
                 (Min(IndexOf(distinct, word_embeddings[j]), k) - 1 + i) % k],
             exemplars |-> Cycle(distinct, k)]

\* variant: one cluster for every distinct point, however many
cluster_word_embeddings_k_means_by_value(word_embeddings, k) ==
    LET distinct == DistinctInOrder(word_embeddings)
        n == Len(word_embeddings)
    IN IF n < k
       THEN [exc |-> "ValueError", labels |-> <<>>, exemplars |-> <<>>]
       ELSE [exc |-> "none",
             labels |-> [j \in 1..n |->
                 IndexOf(distinct, word_embeddings[j]) - 1],
             exemplars |-> distinct]

\* lines 47-51.  KMeans refuses fewer samples than clusters; with
\* random_state=0 the labelling is a function of the input: every distinct
\* point is a cluster of its own.
cluster_word_embeddings_k_means(word_embeddings, k) ==
    LET distinct == DistinctInOrder(word_embeddings)
        n == Len(word_embeddings)
    IN IF n < k
       THEN [exc |-> "ValueError", labels |-> <<>>, exemplars |-> <<>>]
       ELSE [exc |-> "none",
             labels |-> [j \in 1..n |->
                 Min(IndexOf(distinct, word_embeddings[j]), k) - 1],
             exemplars |-> Cycle(distinct, k)]

\* labels[:n] and labels[n:]
SliceTo(labels, n)   == SubSeq(labels, 1, Min(n, Len(labels)))
SliceFrom(labels, n) == SubSeq(labels, Min(n, Len(labels)) + 1, Len(labels))

-----------------------------------------------------------------------------
(* The results table, lines 226-227 *)

DataFrame_from_dict(rd) ==
    [k \in 1..Len(rd.word) |->
        [word |-> rd.word[k], aff_prop |-> rd.aff_prop[k],
         kmeans_5 |-> rd.kmeans_5[k], kmeans_7 |-> rd.kmeans_7[k],
         averaging |-> rd.averaging[k],
         aff_prop_clusters |-> rd.aff_prop_clusters[k]]]

\* variant: ascending=True
MayPrecedeAscending(x, y) ==
    \/ y = NaN
    \/ x # NaN /\ x <= y

\* x may precede y when sorting by=['aff_prop'], ascending=False; NaN last
MayPrecede(x, y) ==
    \/ y = NaN
    \/ x # NaN /\ x >= y

IndexPermutations(n) ==
    {p \in [1..n -> 1..n] : \A a, b \in 1..n : p[a] = p[b] => a = b}

\* the possible results of sort_values (the default sort is not stable)
sort_values(df) ==
    { [k \in DOMAIN df |-> df[p[k]]] : p \in
        { q \in IndexPermutations(Len(df)) :
            \A k \in 1..(Len(df) - 1) :
                MayPrecede(df[q[k]].aff_prop, df[q[k + 1]].aff_prop) } }

\* variant: the dict is started afresh for every word
DictOnly(d, key, value) == [k \in {key} |-> value]

\* variant: the values are one shared object, every key shows the new value
DictSetAliased(d, key, value) == [k \in (DOMAIN d) \cup {key} |-> value]

\* d[key] = value on a dict
DictSet(d, key, value) ==
    [k \in (DOMAIN d) \cup {key} |-> IF k = key THEN value ELSE d[k]]

-----------------------------------------------------------------------------
(* The script, lines 96-262 *)

\* line 100, the choices of --language
language_choices == {"english", "latin", "swedish", "german"}
\* line 114
languages == {"english", "latin", "swedish", "german"}

EmptyResults ==
    [word |-> <<>>, aff_prop |-> <<>>, kmeans_5 |-> <<>>, kmeans_7 |-> <<>>,
     averaging |-> <<>>, aff_prop_clusters |-> <<>>]

FileNames == {"results", "aff_prop_labels", "aff_prop_centroids",
              "kmeans_5_labels", "kmeans_5_centroids",
              "kmeans_7_labels", "kmeans_7_centroids", "sents"}

\* an output directory that does not exist yet
NoFile == [exists |-> FALSE, content |-> <<>>]
EmptyDir == [dir |-> FALSE, file |-> [f \in FileNames |-> NoFile]]

\* open(name, 'wb'); pickle.dump(obj); close()  /  to_csv(name)
WriteFile(name, obj) ==
    fs' = [fs EXCEPT !.file[name] = [exists |-> TRUE, content |-> obj]]

\* an absent optional sequence argument
NoSequence == [given |-> FALSE, value |-> <<>>]

\* truncate_sequences is not called
TruncateIdle ==
    /\ ids = <<>> /\ pair_ids = NoSequence
    /\ num_tokens_to_remove = 0
    /\ truncation_strategy = "longest_first"
    /\ stride = 0
    /\ truncated = [exc |-> "none", ids |-> <<>>, pair_ids |-> NoSequence,
                    overflowing_tokens |-> <<>>]

\* train is not called
TrainIdle ==
    /\ train_args = [max_steps |-> 0 - 1, num_train_epochs |-> 1,
                     gradient_accumulation_steps |-> 1, save_steps |-> 0,
                     save_total_limit |-> 0,
                     model_name_or_path |-> [kind |-> "absent", step |-> 0]]
    /\ len_train_dataloader = 0
    /\ args_output_dir = {}
    /\ num_train_epochs = 0
    /\ t_total = 0
    /\ global_step = 0
    /\ epochs_trained = 0
    /\ steps_trained_in_current_epoch = 0
    /\ epoch = 0 /\ step = 0
    /\ output_dir = 0
    /\ checkpoints_to_be_deleted = <<>>
    /\ optimizer_steps = 0
    /\ skipped_batches = 0
    /\ optimizer_pt = {}

\* the state of the fine-tuning script when it is not run
FinetuningIdle == TruncateIdle /\ TrainIdle

Init ==
    /\ FinetuningIdle
    /\ pc = "parse_args"
    /\ exc = "none"
    /\ argv_language \in LanguageArgs
    /\ oneEmbPerSentence \in BOOLEAN
    /\ pickle_file \in PickleFiles
    /\ bert_embeddings = NotLoaded
    /\ target_words = <<>>
    /\ i = 0
    /\ word = <<>>
    /\ emb = <<>>
    /\ embeddings1 = <<>> /\ embeddings2 = <<>>
    /\ texts1 = <<>> /\ texts2 = <<>>
    /\ average_dist = 0
    /\ clusters1_aff = <<>> /\ clusters2_aff = <<>>
    /\ aff_prop_centroids = <<>> /\ n_senses = 0 /\ aff_prop_jsd = 0
    /\ preference = None
    /\ clusters1_km5 = <<>> /\ clusters2_km5 = <<>>
    /\ kmeans_5_centroids = <<>> /\ kmeans5_jsd = 0
    /\ clusters1_km7 = <<>> /\ clusters2_km7 = <<>>
    /\ kmeans_7_centroids = <<>> /\ kmeans7_jsd = 0
    /\ results_dict = EmptyResults
    /\ sentence_dict = <<>>
    /\ aff_prop_labels_dict = <<>> /\ aff_prop_centroids_dict = <<>>
    /\ kmeans_5_labels_dict = <<>> /\ kmeans_5_centroids_dict = <<>>
    /\ kmeans_7_labels_dict = <<>> /\ kmeans_7_centroids_dict = <<>>
    /\ fs = EmptyDir

\* variant: no check of the language
ParseArgsUnchecked ==
    /\ pc = "parse_args"
    /\ pc' = "load"
    /\ UNCHANGED <<exc, args, loaded, cursor, pooled, average_dist, affvars,
                   km5vars, km7vars, results_dict, sentence_dict, labdicts, fs>>
    /\ UNCHANGED finetuning

\* lines 98-117: argparse rejects a value outside the choices (exit status
\* 2); the script then checks the language once more and calls sys.exit()
ParseArgs ==
    /\ pc = "parse_args"
    /\ IF argv_language \in language_choices /\ argv_language \in languages
       THEN pc' = "load"
       ELSE pc' = "exited"
    /\ UNCHANGED <<exc, args, loaded, cursor, pooled, average_dist, affvars,
                   km5vars, km7vars, results_dict, sentence_dict, labdicts, fs>>
    /\ UNCHANGED finetuning

\* lines 118-133
LoadEmbeddings ==
    /\ pc = "load"
    /\ bert_embeddings' = pickle_file
    /\ target_words' = pickle_file.keys
    /\ results_dict' = EmptyResults
    /\ sentence_dict' = <<>>
    /\ aff_prop_labels_dict' = <<>> /\ aff_prop_centroids_dict' = <<>>
    /\ kmeans_5_labels_dict' = <<>> /\ kmeans_5_centroids_dict' = <<>>
    /\ kmeans_7_labels_dict' = <<>> /\ kmeans_7_centroids_dict' = <<>>
    /\ pc' = "for_word"
    /\ UNCHANGED <<exc, args, cursor, pooled, average_dist, affvars,
                   km5vars, km7vars, fs>>
    /\ UNCHANGED finetuning

\* variant: the words are taken from the last key to the first
NextWordReversed ==
    /\ pc = "for_word"
    /\ IF i < Len(target_words)
       THEN /\ i' = i + 1
            /\ word' = target_words[Len(target_words) - i]
            /\ emb' = bert_embeddings.val[target_words[Len(target_words) - i]]
            /\ embeddings1' = <<>> /\ embeddings2' = <<>>
            /\ texts1' = <<>> /\ texts2' = <<>>
            /\ pc' = "filter"
       ELSE /\ pc' = "done"
            /\ UNCHANGED <<cursor, pooled>>
    /\ UNCHANGED <<exc, args, loaded, average_dist, affvars, km5vars,
                   km7vars, results_dict, sentence_dict, labdicts, fs>>
    /\ UNCHANGED finetuning

\* lines 134-141: the next word of the loop, or the end of the script
NextWord ==
    /\ pc = "for_word"
    /\ IF i < Len(target_words)
       THEN /\ i' = i + 1
            /\ word' = target_words[i + 1]
            /\ emb' = bert_embeddings.val[target_words[i + 1]]
            /\ embeddings1' = <<>> /\ embeddings2' = <<>>
            /\ texts1' = <<>> /\ texts2' = <<>>
            /\ pc' = "filter"
       ELSE /\ pc' = "done"
            /\ UNCHANGED <<cursor, pooled>>
    /\ UNCHANGED <<exc, args, loaded, average_dist, affvars, km5vars,
                   km7vars, results_dict, sentence_dict, labdicts, fs>>
    /\ UNCHANGED finetuning

\* lines 143-169: the filter and dedupe loops over both time slices
FilterOccurrences ==
    /\ pc = "filter"
    /\ LET r == FilterWord(emb, word, oneEmbPerSentence)
       IN /\ embeddings1' = r.e1 /\ texts1' = r.x1
          /\ embeddings2' = r.e2 /\ texts2' = r.x2
          /\ exc' = r.exc
          /\ pc' = IF r.exc = "none" THEN "average" ELSE "crashed"
    /\ UNCHANGED <<args, loaded, cursor, average_dist, affvars, km5vars,
                   km7vars, results_dict, sentence_dict, labdicts, fs>>
    /\ UNCHANGED finetuning

\* lines 172-180
ComputeAveraged ==
    /\ pc = "average"
    /\ sentence_dict' = DictSet(sentence_dict, word, [t1 |-> texts1, t2 |-> texts2])
    /\ LET r == compute_averaged_embedding_dist(embeddings1, embeddings2)
       IN IF r.exc = "none"
          THEN /\ average_dist' = r.dist
               /\ pc' = "aff_prop"
               /\ exc' = exc
          ELSE /\ exc' = r.exc
               /\ pc' = "crashed"
               /\ average_dist' = average_dist
    /\ UNCHANGED <<args, loaded, cursor, pooled, affvars, km5vars, km7vars,
                   results_dict, labdicts, fs>>
    /\ UNCHANGED finetuning

\* line 182
embeddings_concat == embeddings1 \o embeddings2

\* variant: the labels split at the size of the second slice
split_index_second == Len(embeddings2)

\* the index at which the labels of the pooled set are split, lines 185-186
split_index == Len(embeddings1)

\* variant: the noise label is not counted as a cluster
count_senses_without_noise(labels) == Cardinality(Range(labels) \ {0 - 1})

\* line 187: n_senses = len(list(set(aff_prop_labels)))
count_senses(labels) == Cardinality(Range(labels))

\* lines 184-188
ClusterAffProp ==
    /\ pc = "aff_prop"
    /\ \E outcome \in AffPropOutcomes :
         LET r  == cluster_word_embeddings_aff_prop(embeddings_concat, outcome)
             c1 == SliceTo(r.labels, split_index)
             c2 == SliceFrom(r.labels, split_index)
         IN /\ clusters1_aff' = c1
            /\ clusters2_aff' = c2
            /\ aff_prop_centroids' = r.exemplars
            /\ n_senses' = count_senses(r.labels)
            /\ aff_prop_jsd' = compute_divergence_from_cluster_labels(c1, c2)
    /\ preference' = aff_prop_call_preference
    /\ pc' = "kmeans_5"
    /\ UNCHANGED <<exc, args, loaded, cursor, pooled, average_dist, km5vars,
                   km7vars, results_dict, sentence_dict, labdicts, fs>>
    /\ UNCHANGED finetuning

\* lines 190-193
ClusterKMeans5 ==
    /\ pc = "kmeans_5"
    /\ LET r  == cluster_word_embeddings_k_means(embeddings_concat, 5)
           c1 == SliceTo(r.labels, split_index)
           c2 == SliceFrom(r.labels, split_index)
       IN IF r.exc = "none"
          THEN /\ clusters1_km5' = c1
               /\ clusters2_km5' = c2
               /\ kmeans_5_centroids' = r.exemplars
               /\ kmeans5_jsd' = compute_divergence_from_cluster_labels(c1, c2)
               /\ pc' = "kmeans_7"
               /\ exc' = exc
          ELSE /\ exc' = r.exc
               /\ pc' = "crashed"
               /\ UNCHANGED km5vars
    /\ UNCHANGED <<args, loaded, cursor, pooled, average_dist, affvars,
                   km7vars, results_dict, sentence_dict, labdicts, fs>>
    /\ UNCHANGED finetuning

\* lines 195-198
ClusterKMeans7 ==
    /\ pc = "kmeans_7"
    /\ LET r  == cluster_word_embeddings_k_means(embeddings_concat, 7)
           c1 == SliceTo(r.labels, split_index)
           c2 == SliceFrom(r.labels, split_index)
       IN IF r.exc = "none"
          THEN /\ clusters1_km7' = c1
               /\ clusters2_km7' = c2
               /\ kmeans_7_centroids' = r.exemplars
               /\ kmeans7_jsd' = compute_divergence_from_cluster_labels(c1, c2)
               /\ pc' = "accumulate"
               /\ exc' = exc
          ELSE /\ exc' = r.exc
               /\ pc' = "crashed"
               /\ UNCHANGED km7vars
    /\ UNCHANGED <<args, loaded, cursor, pooled, average_dist, affvars,
                   km5vars, results_dict, sentence_dict, labdicts, fs>>
    /\ UNCHANGED finetuning

\* lines 200-215
Accumulate ==
    /\ pc = "accumulate"
    /\ aff_prop_labels_dict' = DictSet(aff_prop_labels_dict, word,
            [t1 |-> clusters1_aff, t2 |-> clusters2_aff])
    /\ aff_prop_centroids_dict' = DictSet(aff_prop_centroids_dict, word,
            aff_prop_centroids)
    /\ kmeans_5_labels_dict' = DictSet(kmeans_5_labels_dict, word,
            [t1 |-> clusters1_km5, t2 |-> clusters2_km5])
    /\ kmeans_5_centroids_dict' = DictSet(kmeans_5_centroids_dict, word,
            kmeans_5_centroids)
    /\ kmeans_7_labels_dict' = DictSet(kmeans_7_labels_dict, word,
            [t1 |-> clusters1_km7, t2 |-> clusters2_km7])
    /\ kmeans_7_centroids_dict' = DictSet(kmeans_7_centroids_dict, word,
            kmeans_7_centroids)
    /\ results_dict' =
         [word |-> Append(results_dict.word, word),
          aff_prop |-> Append(results_dict.aff_prop, aff_prop_jsd),
          aff_prop_clusters |-> Append(results_dict.aff_prop_clusters, n_senses),
          kmeans_5 |-> Append(results_dict.kmeans_5, kmeans5_jsd),
          kmeans_7 |-> Append(results_dict.kmeans_7, kmeans7_jsd),
          averaging |-> Append(results_dict.averaging, average_dist)]
    /\ pc' = "save_csv"
    /\ UNCHANGED <<exc, args, loaded, cursor, pooled, average_dist, affvars,
                   km5vars, km7vars, sentence_dict, fs>>
    /\ UNCHANGED finetuning

\* every file write leaves everything but pc and fs alone
WriteFrame ==
    UNCHANGED <<exc, args, loaded, cursor, pooled, average_dist, affvars,
                km5vars, km7vars, results_dict, sentence_dict, labdicts>>

\* lines 217-228
SaveCsv ==
    /\ pc = "save_csv"
    /\ \E results_df \in sort_values(DataFrame_from_dict(results_dict)) :
         fs' = [fs EXCEPT !.dir = TRUE,
                          !.file["results"] = [exists |-> TRUE,
                                               content |-> results_df]]
    /\ pc' = "save_aff_labels"
    /\ WriteFrame
    /\ UNCHANGED finetuning

\* lines 231-235
SaveAffPropLabels ==
    /\ pc = "save_aff_labels"
    /\ WriteFile("aff_prop_labels", aff_prop_labels_dict)
    /\ pc' = "save_aff_centroids"
    /\ WriteFrame
    /\ UNCHANGED finetuning

\* lines 236-238
SaveAffPropCentroids ==
    /\ pc = "save_aff_centroids"
    /\ WriteFile("aff_prop_centroids", aff_prop_centroids_dict)
    /\ pc' = "save_km5_labels"
    /\ WriteFrame
    /\ UNCHANGED finetuning

\* lines 240-244
SaveKMeans5Labels ==
    /\ pc = "save_km5_labels"
    /\ WriteFile("kmeans_5_labels", kmeans_5_labels_dict)
    /\ pc' = "save_km5_centroids"
    /\ WriteFrame
    /\ UNCHANGED finetuning

\* lines 245-247
SaveKMeans5Centroids ==
    /\ pc = "save_km5_centroids"
    /\ WriteFile("kmeans_5_centroids", kmeans_5_centroids_dict)
    /\ pc' = "save_km7_labels"
    /\ WriteFrame
    /\ UNCHANGED finetuning

\* lines 249-253
SaveKMeans7Labels ==
    /\ pc = "save_km7_labels"
    /\ WriteFile("kmeans_7_labels", kmeans_7_labels_dict)
    /\ pc' = "save_km7_centroids"
    /\ WriteFrame
    /\ UNCHANGED finetuning

\* lines 254-256
SaveKMeans7Centroids ==
    /\ pc = "save_km7_centroids"
    /\ WriteFile("kmeans_7_centroids", kmeans_7_centroids_dict)
    /\ pc' = "save_sents"
    /\ WriteFrame
    /\ UNCHANGED finetuning

\* variant: the iteration ends without writing the sentences
SaveSentencesSkipped ==
    /\ pc = "save_sents"
    /\ fs' = fs
    /\ pc' = "for_word"
    /\ WriteFrame
    /\ UNCHANGED finetuning

\* lines 258-262, the end of the iteration
SaveSentences ==
    /\ pc = "save_sents"
    /\ WriteFile("sents", sentence_dict)
    /\ pc' = "for_word"
    /\ WriteFrame
    /\ UNCHANGED finetuning

Next ==
    \/ ParseArgs
    \/ LoadEmbeddings
    \/ NextWord
    \/ FilterOccurrences
    \/ ComputeAveraged
    \/ ClusterAffProp
    \/ ClusterKMeans5
    \/ ClusterKMeans7
    \/ Accumulate
    \/ SaveCsv
    \/ SaveAffPropLabels
    \/ SaveAffPropCentroids
    \/ SaveKMeans5Labels
    \/ SaveKMeans5Centroids
    \/ SaveKMeans7Labels
    \/ SaveKMeans7Centroids
    \/ SaveSentences

Spec == Init /\ [][Next]_vars

-----------------------------------------------------------------------------
(* compute_divergence_from_cluster_labels on its own: the call of line 188 *)
(* for every pair of label lists within the bound                          *)

\* the longest explored label list of a slice
MaxLabels == 4

\* the explored cluster labels; -1 is what a clustering without exemplars gives
LabelValues == {0 - 1, 0, 1}

LabelLists == UNION { [1..n -> LabelValues] : n \in 0..MaxLabels }

InitDivergence ==
    /\ FinetuningIdle
    /\ pc = "divergence"
    /\ clusters1_aff \in LabelLists
    /\ clusters2_aff \in LabelLists
    /\ exc = "none"
    /\ argv_language = "english"
    /\ oneEmbPerSentence = FALSE
    /\ pickle_file = [keys |-> <<>>, val |-> <<>>]
    /\ bert_embeddings = NotLoaded
    /\ target_words = <<>>
    /\ i = 0
    /\ word = <<>>
    /\ emb = <<>>
    /\ embeddings1 = <<>> /\ embeddings2 = <<>>
    /\ texts1 = <<>> /\ texts2 = <<>>
    /\ average_dist = 0
    /\ aff_prop_centroids = <<>> /\ n_senses = 0 /\ aff_prop_jsd = 0
    /\ preference = None
    /\ clusters1_km5 = <<>> /\ clusters2_km5 = <<>>
    /\ kmeans_5_centroids = <<>> /\ kmeans5_jsd = 0
    /\ clusters1_km7 = <<>> /\ clusters2_km7 = <<>>
    /\ kmeans_7_centroids = <<>> /\ kmeans7_jsd = 0
    /\ results_dict = EmptyResults
    /\ sentence_dict = <<>>
    /\ aff_prop_labels_dict = <<>> /\ aff_prop_centroids_dict = <<>>
    /\ kmeans_5_labels_dict = <<>> /\ kmeans_5_centroids_dict = <<>>
    /\ kmeans_7_labels_dict = <<>> /\ kmeans_7_centroids_dict = <<>>
    /\ fs = EmptyDir

\* line 188: aff_prop_jsd = compute_divergence_from_cluster_labels(...)
CallDivergence ==
    /\ pc = "divergence"
    /\ aff_prop_jsd' =
          compute_divergence_from_cluster_labels(clusters1_aff, clusters2_aff)
    /\ pc' = "divergence_done"
    /\ UNCHANGED <<exc, args, loaded, cursor, pooled, average_dist,
                   clusters1_aff, clusters2_aff, aff_prop_centroids, n_senses,
                   preference, km5vars, km7vars, results_dict, sentence_dict,
                   labdicts, fs>>
    /\ UNCHANGED finetuning

NextDivergence == CallDivergence

SpecDivergence == InitDivergence /\ [][NextDivergence]_vars

-----------------------------------------------------------------------------
(* Properties *)

\* the positions of the script between the filter and the end of an iteration
PostFilter ==
    pc \in {"average", "aff_prop", "kmeans_5", "kmeans_7", "accumulate",
            "save_csv", "save_aff_labels", "save_aff_centroids",
            "save_km5_labels", "save_km5_centroids", "save_km7_labels",
            "save_km7_centroids", "save_sents"}

\* the positions after the accumulators received the current word
PostAccumulate ==
    pc \in {"save_csv", "save_aff_labels", "save_aff_centroids",
            "save_km5_labels", "save_km5_centroids", "save_km7_labels",
            "save_km7_centroids", "save_sents"}

TimeSlices == {"t1", "t2"}
TextKey(ts) == IF ts = "t1" THEN "t1_text" ELSE "t2_text"

\* the target word without its part-of-speech suffix
StripPosSuffix(w) ==
    IF Len(w) >= 3 /\ SubSeq(w, Len(w) - 2, Len(w)) \in
                          {<<"_", "n", "n">>, <<"_", "v", "b">>}
    THEN SubSeq(w, 1, Len(w) - 3)
    ELSE w

\* the tokens of a sentence: its maximal runs of word characters
Tokens(text) ==
    { SubSeq(text, a, b) : <<a, b>> \in
        { ab \in (1..Len(text)) \X (1..Len(text)) :
            /\ ab[1] <= ab[2]
            /\ \A k \in ab[1]..ab[2] : IsWordChar(text[k])
            /\ ab[1] = 1 \/ ~ IsWordChar(text[ab[1] - 1])
            /\ ab[2] = Len(text) \/ ~ IsWordChar(text[ab[2] + 1]) } }

ContainsWholeWord(text, w) == StripPosSuffix(w) \in Tokens(text)

\* the entries of seq at the positions idxs, in increasing position
Pick(seq, idxs) ==
    LET order == SortedSeq(idxs) IN [k \in DOMAIN order |-> seq[order[k]]]

\* positions of the occurrences of slice ts whose sentence has the word
MatchingIdx(rec, ts, w) ==
    {k \in 1..Len(rec[ts]) : ContainsWholeWord(rec[TextKey(ts)][k], w)}

KeptEmbeddings(ts) == IF ts = "t1" THEN embeddings1 ELSE embeddings2
KeptTexts(ts)      == IF ts = "t1" THEN texts1 ELSE texts2

\* C1: after the filter of a word, every kept occurrence has a sentence that
\* contains the target word (suffix stripped) as a whole token, and with
\* deduplication off the kept embeddings and sentences of each slice are
\* exactly the occurrences with such a sentence; the same holds of the
\* sentences recorded for every word.
C1_FilterKeepsWholeWordMatches ==
    /\ PostFilter =>
         \A ts \in TimeSlices :
            /\ \A k \in DOMAIN KeptTexts(ts) :
                  ContainsWholeWord(KeptTexts(ts)[k], word)
            /\ ~ oneEmbPerSentence =>
                  LET idxs == MatchingIdx(emb, ts, word) IN
                  /\ KeptTexts(ts) = Pick(emb[TextKey(ts)], idxs)
                  /\ KeptEmbeddings(ts) = Pick(emb[ts], idxs)
    /\ \A w \in DOMAIN sentence_dict : \A ts \in TimeSlices :
            /\ \A k \in DOMAIN sentence_dict[w][ts] :
                  ContainsWholeWord(sentence_dict[w][ts][k], w)
            /\ ~ oneEmbPerSentence =>
                  sentence_dict[w][ts] =
                     Pick(bert_embeddings.val[w][TextKey(ts)],
                          MatchingIdx(bert_embeddings.val[w], ts, w))

\* a word whose first slice held "cab" and "ab c": one dropped, one kept
C1_Witness ==
    /\ pc = "average"
    /\ ~ oneEmbPerSentence
    /\ \E k \in DOMAIN emb["t1"] : emb["t1_text"][k] = S_cab
    /\ S_ab_c \in Range(texts1)
    /\ S_cab \notin Range(texts1)
    /\ Len(texts1) = Len(emb["t1"]) - 1

\* C2: once a word is accumulated, the label lists stored for it under
\* every strategy have Len(embeddings1) entries for t1 and Len(embeddings2)
\* entries for t2.
C2_SplitInvariant ==
    PostAccumulate =>
        \A d \in {aff_prop_labels_dict, kmeans_5_labels_dict,
                  kmeans_7_labels_dict} :
            /\ Len(d[word]["t1"]) = Len(embeddings1)
            /\ Len(d[word]["t2"]) = Len(embeddings2)

\* a word with slices of different sizes has been split
C2_Witness ==
    /\ pc = "save_csv"
    /\ Len(embeddings1) # Len(embeddings2)
    /\ Len(aff_prop_labels_dict[word]["t1"]) = Len(embeddings1)
    /\ Len(kmeans_7_labels_dict[word]["t2"]) = Len(embeddings2)

\* C3 (as claimed): a slice left empty by the filter never ends the run;
\* the only ValueError raised with an empty slice is that of line 180.
C3_EmptySliceIsSkipped ==
    ~ ( /\ pc = "crashed"
        /\ exc = "ValueError"
        /\ (embeddings1 = <<>> \/ embeddings2 = <<>>) )

\* C4 (as claimed): an error of one word's computation never ends the run
\* while words of the input mapping are still to be processed.
C4_ErrorsAreIsolated ==
    ~ ( /\ pc = "crashed"
        /\ exc = "ValueError"
        /\ i < Len(target_words) )

\* the words a persisted artifact describes
PersistedWords(name) ==
    IF name = "results"
    THEN {row.word : row \in Range(fs.file[name].content)}
    ELSE DOMAIN fs.file[name].content

\* the number of words whose iteration has run to its end
Completed == IF pc \in {"for_word", "done"} \/ i = 0 THEN i ELSE i - 1

CompletedWords == {target_words[k] : k \in 1..Completed}

\* the positions between the first and the last file write of an iteration
MidWrite ==
    pc \in {"save_aff_labels", "save_aff_centroids", "save_km5_labels",
            "save_km5_centroids", "save_km7_labels", "save_km7_centroids",
            "save_sents"}

\* C5 (as claimed): in every state all eight files describe the same words.
C5_SnapshotAlwaysConsistent ==
    \A a, b \in FileNames : PersistedWords(a) = PersistedWords(b)

\* C5 (amended): outside the write sequence of an iteration, every file
\* describes exactly the words whose iteration has run to its end.
C5_SnapshotConsistentBetweenIterations ==
    ~ MidWrite => \A a \in FileNames : PersistedWords(a) = CompletedWords

\* the second word is computed and accumulated, the files still hold the first
C5_Witness ==
    /\ pc = "save_csv"
    /\ i = 2
    /\ Len(results_dict.word) = 2
    /\ \A a \in FileNames : PersistedWords(a) = {target_words[1]}

\* C6: the persisted table is in descending order of aff_prop, and once
\* written it holds exactly the rows accumulated so far.
C6_TableSortedDescending ==
    LET csv == fs.file["results"].content IN
    fs.file["results"].exists =>
        /\ \A k \in 1..(Len(csv) - 1) : csv[k].aff_prop >= csv[k + 1].aff_prop
        /\ pc # "save_csv" =>
              /\ Len(csv) = Len(results_dict.word)
              /\ Range(csv) = Range(DataFrame_from_dict(results_dict))

\* the second word has the larger divergence and was moved to the first row
C6_Witness ==
    LET csv == fs.file["results"].content IN
    /\ pc = "save_aff_labels"
    /\ Len(csv) = 2
    /\ csv[1].aff_prop > csv[2].aff_prop
    /\ csv[1].word = target_words[2]

\* C7: after the iteration of the i-th word the table has i rows, one for
\* each of the first i words, and the seven maps have those words as keys.
C7_CompleteAfterEachWord ==
    (pc \in {"for_word", "done"} /\ i >= 1) =>
        LET csv == fs.file["results"].content
            processed == {target_words[k] : k \in 1..i}
        IN /\ Len(csv) = i
           /\ {csv[k].word : k \in 1..Len(csv)} = processed
           /\ Cardinality(processed) = i
           /\ \A name \in FileNames \ {"results"} :
                 /\ fs.file[name].exists
                 /\ DOMAIN fs.file[name].content = processed

\* both words of a two-word mapping have been processed
C7_Witness ==
    /\ pc = "done"
    /\ i = 2
    /\ Len(fs.file["results"].content) = 2

\* positions of the first occurrence of every distinct matching sentence
FirstMatchingIdx(rec, ts, w) ==
    {k \in MatchingIdx(rec, ts, w) :
        \A j \in 1..(k - 1) : rec[TextKey(ts)][j] # rec[TextKey(ts)][k]}

\* C8: with one-embedding-per-sentence on, the kept embeddings and sentences
\* of each slice, and the sentences recorded for the word, are those of the
\* first occurrence of every distinct matching sentence of that slice; with
\* the option off no slice loses a matching occurrence.
C8_DedupKeepsFirstPerSlice ==
    PostFilter =>
        \A ts \in TimeSlices :
            IF oneEmbPerSentence
            THEN /\ KeptTexts(ts) =
                       Pick(emb[TextKey(ts)], FirstMatchingIdx(emb, ts, word))
                 /\ KeptEmbeddings(ts) =
                       Pick(emb[ts], FirstMatchingIdx(emb, ts, word))
                 /\ pc # "average" =>
                       sentence_dict[word][ts] =
                          Pick(emb[TextKey(ts)], FirstMatchingIdx(emb, ts, word))
            ELSE Len(KeptEmbeddings(ts)) =
                    Cardinality(MatchingIdx(emb, ts, word))

\* a repeated sentence of slice 1 was dropped, and a sentence of slice 1 was
\* kept again in slice 2
C8_Witness ==
    /\ pc = "aff_prop"
    /\ oneEmbPerSentence
    /\ Len(texts1) < Cardinality(MatchingIdx(emb, "t1", word))
    /\ Range(texts1) \cap Range(texts2) # {}

\* every key is there and every slice has as many sentences as embeddings
WellFormed(rec) ==
    /\ RecordKeys \subseteq DOMAIN rec
    /\ \A ts \in TimeSlices : Len(rec[ts]) = Len(rec[TextKey(ts)])

\* C9 (as claimed): no row is produced for a word whose record lacks a key
\* or has a slice with different numbers of embeddings and sentences.
C9_MalformedIsFatal ==
    \A w \in Range(results_dict.word) : WellFormed(bert_embeddings.val[w])

\* C9 (amended): no row is produced for a word whose record lacks a key or
\* has a slice with more embeddings than sentences.
C9_MissingKeyOrMissingTextIsFatal ==
    \A w \in Range(results_dict.word) :
        /\ RecordKeys \subseteq DOMAIN bert_embeddings.val[w]
        /\ \A ts \in TimeSlices :
              Len(bert_embeddings.val[w][ts])
                 <= Len(bert_embeddings.val[w][TextKey(ts)])

\* the run was ended by the sentence missing for the last embedding of t1
C9_Witness ==
    /\ pc = "crashed"
    /\ exc = "IndexError"
    /\ Len(emb["t1"]) > Len(emb["t1_text"])
    /\ word \notin Range(results_dict.word)

\* C10: with a language outside the supported four, the embeddings are never
\* loaded, no word is started and no file or directory is created.
C10_UnsupportedLanguageIsFatal ==
    argv_language \notin {"english", "latin", "swedish", "german"} =>
        /\ pc \in {"parse_args", "exited"}
        /\ bert_embeddings = NotLoaded
        /\ i = 0
        /\ results_dict = EmptyResults
        /\ fs = EmptyDir

\* the script has exited on --language french
C10_Witness ==
    /\ pc = "exited"
    /\ argv_language = "french"
    /\ bert_embeddings = NotLoaded
    /\ fs = EmptyDir


\* the scores of a row of the table
RowScores(row) ==
    {row.aff_prop, row.kmeans_5, row.kmeans_7, row.averaging}

\* C11: no divergence and no averaged-embedding distance of the persisted
\* table, nor of the accumulator it is written from, is nan.
C11_NoNaNPersisted ==
    /\ \A row \in Range(fs.file["results"].content) : NaN \notin RowScores(row)
    /\ \A row \in Range(DataFrame_from_dict(results_dict)) :
          NaN \notin RowScores(row)

\* the row of a word whose first slice has only all-zero embeddings is
\* persisted, with distance 1 to the other slice
C11_Witness ==
    /\ PostAccumulate
    /\ pc # "save_csv"
    /\ Range(embeddings1) = {EZ}
    /\ \E row \in Range(fs.file["results"].content) :
          /\ row.word = word
          /\ row.averaging = 1000


\* C12: the current word is the i-th key of the input mapping; the rows of
\* the accumulator are the first keys of the mapping in their order, all
\* those before the current word and the current word once accumulated; and
\* while the i-th word is being processed every file already holds each of
\* the i-1 words before it.
C12_SequentialInKeyOrder ==
    /\ i >= 1 => word = pickle_file.keys[i]
    /\ Len(results_dict.word) = IF PostAccumulate THEN i ELSE Completed
    /\ results_dict.word = SubSeq(pickle_file.keys, 1, Len(results_dict.word))
    /\ \A k \in 1..(i - 1) : \A name \in FileNames :
          pickle_file.keys[k] \in PersistedWords(name)

\* the second key is being filtered, the first one is in every file
C12_Witness ==
    /\ pc = "filter"
    /\ i = 2
    /\ word = pickle_file.keys[2]
    /\ results_dict.word = <<pickle_file.keys[1]>>
    /\ \A name \in FileNames : PersistedWords(name) = {pickle_file.keys[1]}


\* the current word has occurrences in both slices
BothSlicesKept == embeddings1 # <<>> /\ embeddings2 # <<>>

\* C13 (as claimed): a word with occurrences in both slices is clustered by
\* all three strategies whatever the size of its pooled set; no clustering
\* ends the run.
C13_ThreeStrategiesWhateverTheSize ==
    ~ (pc = "crashed" /\ exc = "ValueError" /\ BothSlicesKept)

\* C13 (amended): a clustering ends the run only for a pooled set of fewer
\* than 7 occurrences, and a word that is accumulated has at least 7 and has
\* in its row the divergences of its three label splits.
C13_ThreeStrategiesFromSevenOccurrences ==
    /\ (pc = "crashed" /\ exc = "ValueError" /\ BothSlicesKept)
          => Len(embeddings_concat) < 7
    /\ PostAccumulate =>
          /\ Len(embeddings_concat) >= 7
          /\ results_dict.word[i] = word
          /\ results_dict.aff_prop[i] =
                compute_divergence_from_cluster_labels(
                    aff_prop_labels_dict[word]["t1"],
                    aff_prop_labels_dict[word]["t2"])
          /\ results_dict.kmeans_5[i] =
                compute_divergence_from_cluster_labels(
                    kmeans_5_labels_dict[word]["t1"],
                    kmeans_5_labels_dict[word]["t2"])
          /\ results_dict.kmeans_7[i] =
                compute_divergence_from_cluster_labels(
                    kmeans_7_labels_dict[word]["t1"],
                    kmeans_7_labels_dict[word]["t2"])

\* a word with exactly 7 pooled occurrences has its row
C13_Witness ==
    /\ pc = "save_csv"
    /\ Len(embeddings_concat) = 7
    /\ results_dict.word[i] = word


\* the positions of an iteration after the exemplar-based clustering
PostAffProp ==
    pc \in {"kmeans_5", "kmeans_7", "accumulate"} \/ PostAccumulate

\* C14 (as claimed): the exemplar-based clustering of every word is run with
\* the preference aff_prop_pref = -430.
C14_FixedPreferenceUsed ==
    PostAffProp => preference = [given |-> TRUE, value |-> 0 - 430]


-----------------------------------------------------------------------------
(* Properties of the divergence of two label lists *)

PostDivergence == pc = "divergence_done"

BothNonEmpty == clusters1_aff # <<>> /\ clusters2_aff # <<>>

\* the number of positions of labels that hold v
Occurrences(labels, v) == Cardinality({j \in DOMAIN labels : labels[j] = v})

LabelUnion == Range(clusters1_aff) \cup Range(clusters2_aff)

\* C15: the two count vectors are indexed by the same list, which holds each
\* label of either slice exactly once; an entry is the number of occurrences
\* of its label in the slice (0 for an absent label), each vector sums to the
\* size of its slice, and the divergence is the one of these two vectors
C15_UnionAlignment ==
    PostDivergence =>
        LET senses == label_senses(clusters1_aff, clusters2_aff)
            t1     == count_vector(clusters1_aff, senses)
            t2     == count_vector(clusters2_aff, senses)
        IN /\ Range(senses) = LabelUnion
           /\ Cardinality(LabelUnion) = Len(senses)
           /\ Len(t1) = Len(senses) /\ Len(t2) = Len(senses)
           /\ \A k \in DOMAIN senses :
                 /\ t1[k] = Occurrences(clusters1_aff, senses[k])
                 /\ t2[k] = Occurrences(clusters2_aff, senses[k])
                 /\ senses[k] \notin Range(clusters1_aff) => t1[k] = 0
                 /\ senses[k] \notin Range(clusters2_aff) => t2[k] = 0
           /\ SumSeq(t1) = Len(clusters1_aff)
           /\ SumSeq(t2) = Len(clusters2_aff)
           /\ aff_prop_jsd = compute_jsd(DivideBySum(t1), DivideBySum(t2))

\* a label only in slice 1, a label only in slice 2 and a shared label
C15_Witness ==
    /\ PostDivergence
    /\ Range(clusters1_aff) \ Range(clusters2_aff) # {}
    /\ Range(clusters2_aff) \ Range(clusters1_aff) # {}
    /\ Range(clusters1_aff) \cap Range(clusters2_aff) # {}
    /\ aff_prop_jsd > 0

\* C16: for two non-empty slices the divergence of (labels1, labels2) is the
\* divergence of (labels2, labels1), and compute_jsd of their two frequency
\* vectors is the same in either order of its arguments
C16_JsdSymmetric ==
    (PostDivergence /\ BothNonEmpty) =>
        LET senses == label_senses(clusters1_aff, clusters2_aff)
            p      == DivideBySum(count_vector(clusters1_aff, senses))
            q      == DivideBySum(count_vector(clusters2_aff, senses))
        IN /\ aff_prop_jsd =
                 compute_divergence_from_cluster_labels(clusters2_aff,
                                                        clusters1_aff)
           /\ compute_jsd(p, q) = compute_jsd(q, p)

\* two slices of different sizes and different frequencies that share a label
C16_Witness ==
    /\ PostDivergence /\ BothNonEmpty
    /\ Len(clusters1_aff) # Len(clusters2_aff)
    /\ Range(clusters1_aff) # Range(clusters2_aff)
    /\ Range(clusters1_aff) \cap Range(clusters2_aff) # {}
    /\ aff_prop_jsd > 0

\* every label has the same relative frequency in the two slices
SameRelativeFrequencies ==
    \A v \in LabelUnion :
        Occurrences(clusters1_aff, v) * Len(clusters2_aff)
      = Occurrences(clusters2_aff, v) * Len(clusters1_aff)

\* C17: two non-empty slices in which every label has the same relative
\* frequency have divergence 0, whatever their sizes
C17_JsdIdentity ==
    (PostDivergence /\ BothNonEmpty /\ SameRelativeFrequencies) =>
        aff_prop_jsd = 0

\* proportional counts of two labels in slices of different sizes
C17_Witness ==
    /\ PostDivergence /\ BothNonEmpty /\ SameRelativeFrequencies
    /\ Len(clusters1_aff) # Len(clusters2_aff)
    /\ Cardinality(Range(clusters1_aff)) = 2
    /\ aff_prop_jsd = 0

\* identical label lists with two labels
C17_WitnessIdentical ==
    /\ PostDivergence /\ BothNonEmpty
    /\ clusters1_aff = clusters2_aff
    /\ Cardinality(Range(clusters1_aff)) = 2
    /\ aff_prop_jsd = 0

\* ln 2 in 1e-6
ln2_micro == ln_micro[2]

NoSharedLabel == Range(clusters1_aff) \cap Range(clusters2_aff) = {}

AtUpperBound ==
    /\ ln2_micro - jsd_tolerance <= aff_prop_jsd
    /\ aff_prop_jsd <= ln2_micro + jsd_tolerance

\* C18: the divergence of two non-empty slices is a number between 0 and
\* ln 2, and it is ln 2 (within the rounding of the logarithm) exactly when
\* the slices share no label; the labels absent from one slice (probability
\* 0) add nothing and give no NaN
C18_JsdBounds ==
    (PostDivergence /\ BothNonEmpty) =>
        /\ aff_prop_jsd # NaN
        /\ 0 <= aff_prop_jsd
        /\ aff_prop_jsd <= ln2_micro + jsd_tolerance
        /\ AtUpperBound <=> NoSharedLabel

\* the upper bound is reached by slices of different sizes, two labels each
C18_Witness ==
    /\ PostDivergence /\ BothNonEmpty /\ NoSharedLabel
    /\ Len(clusters1_aff) # Len(clusters2_aff)
    /\ Cardinality(LabelUnion) = 3
    /\ AtUpperBound

\* a value strictly inside the bounds with a zero entry in each vector
C18_WitnessInside ==
    /\ PostDivergence /\ BothNonEmpty /\ ~NoSharedLabel
    /\ Range(clusters1_aff) \ Range(clusters2_aff) # {}
    /\ Range(clusters2_aff) \ Range(clusters1_aff) # {}
    /\ 0 < aff_prop_jsd /\ aff_prop_jsd < ln2_micro

\* labels with positions j and j + 1 exchanged
SwapAdjacent(labels, j) ==
    [k \in DOMAIN labels |->
        IF k = j THEN labels[j + 1]
        ELSE IF k = j + 1 THEN labels[j] ELSE labels[k]]

\* C19: exchanging two neighbouring labels of slice 1, or of slice 2, leaves
\* the divergence unchanged; every permutation of a slice is a sequence of
\* such exchanges, so the divergence depends on the counts only
C19_OrderIrrelevant ==
    PostDivergence =>
        /\ \A j \in 1..(Len(clusters1_aff) - 1) :
              compute_divergence_from_cluster_labels(
                  SwapAdjacent(clusters1_aff, j), clusters2_aff) = aff_prop_jsd
        /\ \A j \in 1..(Len(clusters2_aff) - 1) :
              compute_divergence_from_cluster_labels(
                  clusters1_aff, SwapAdjacent(clusters2_aff, j)) = aff_prop_jsd

\* both slices end with two different labels and the divergence is a number
\* strictly between the bounds
C19_Witness ==
    /\ PostDivergence
    /\ Len(clusters1_aff) >= 2 /\ Len(clusters2_aff) >= 2
    /\ clusters1_aff[Len(clusters1_aff)] # clusters1_aff[Len(clusters1_aff) - 1]
    /\ clusters2_aff[Len(clusters2_aff)] # clusters2_aff[Len(clusters2_aff) - 1]
    /\ aff_prop_jsd # NaN /\ aff_prop_jsd > 0


-----------------------------------------------------------------------------
(* Order of the kept occurrences *)

\* s is t with some entries left out, the others in their order
RECURSIVE IsSubsequence(_, _)
IsSubsequence(s, t) ==
    IF s = <<>> THEN TRUE
    ELSE IF t = <<>> THEN FALSE
    ELSE IF s[1] = t[1] THEN IsSubsequence(Tail(s), Tail(t))
    ELSE IsSubsequence(s, Tail(t))

\* the k-th entry is the pair of the k-th sentence and the k-th embedding
Paired(texts, embeddings) ==
    [k \in 1..Len(embeddings) |-> <<texts[k], embeddings[k]>>]

\* texts and embeddings are what the input slice ts of rec holds at one set
\* of positions, in increasing position
SamePositionsOf(rec, ts, texts, embeddings) ==
    /\ Len(texts) = Len(embeddings)
    /\ IsSubsequence(Paired(texts, embeddings),
                     Paired(rec[TextKey(ts)], rec[ts]))

\* texts is what the input sentences of slice ts of rec hold at some set of
\* positions, in increasing position
SubsequenceOfTexts(rec, ts, texts) ==
    IsSubsequence(texts, rec[TextKey(ts)])

\* the sentences on disk
PersistedSentences == fs.file["sents"].content

\* C20: after the filter of a word the kept sentences and the kept
\* embeddings of each slice are the input sentences and embeddings at one
\* and the same increasing list of positions (so the k-th sentence is the
\* source of the k-th embedding); the sentences recorded for the word are
\* these kept sentences, and every recorded and every persisted sentence
\* list is a subsequence of the input sentences of its word and slice
C20_OrderPreserved ==
    /\ PostFilter =>
          \A ts \in TimeSlices :
              /\ SamePositionsOf(emb, ts, KeptTexts(ts), KeptEmbeddings(ts))
              /\ Len(KeptTexts(ts)) = Len(KeptEmbeddings(ts))
              /\ (pc # "average") => sentence_dict[word][ts] = KeptTexts(ts)
    /\ \A w \in DOMAIN sentence_dict : \A ts \in TimeSlices :
          SubsequenceOfTexts(bert_embeddings.val[w], ts, sentence_dict[w][ts])
    /\ fs.file["sents"].exists =>
          \A w \in DOMAIN PersistedSentences : \A ts \in TimeSlices :
              SubsequenceOfTexts(bert_embeddings.val[w], ts,
                                 PersistedSentences[w][ts])

\* the sentences of a word are on disk; its first slice lost an occurrence
\* between two kept ones, and what it kept has two different sentences and
\* two different embeddings
C20_Witness ==
    /\ pc = "for_word"
    /\ fs.file["sents"].exists
    /\ word \in DOMAIN PersistedSentences
    /\ PersistedSentences[word]["t1"] = texts1
    /\ \E a, b, c \in DOMAIN emb["t1"] :
          /\ a < b /\ b < c
          /\ ~ ContainsWholeWord(emb["t1_text"][b], word)
          /\ ContainsWholeWord(emb["t1_text"][a], word)
          /\ ContainsWholeWord(emb["t1_text"][c], word)
    /\ Cardinality(Range(texts1)) >= 2
    /\ Cardinality(Range(embeddings1)) >= 2
    /\ Len(texts1) < Len(emb["t1"])


-----------------------------------------------------------------------------
(* Fixed-k clustering *)

\* the positions after the k=5 labels of the current word were assigned
PostKMeans5 ==
    pc \in {"kmeans_7", "accumulate", "save_csv", "save_aff_labels",
            "save_aff_centroids", "save_km5_labels", "save_km5_centroids",
            "save_km7_labels", "save_km7_centroids", "save_sents"}

\* the positions after the k=7 labels of the current word were assigned
PostKMeans7 ==
    pc \in {"accumulate", "save_csv", "save_aff_labels",
            "save_aff_centroids", "save_km5_labels", "save_km5_centroids",
            "save_km7_labels", "save_km7_centroids", "save_sents"}

\* one label of 0..k-1 for every kept occurrence of either slice
FixedKLabelling(c1, c2, k) ==
    /\ Len(c1) = Len(embeddings1)
    /\ Len(c2) = Len(embeddings2)
    /\ \A x \in Range(c1) \cup Range(c2) : x \in 0..(k - 1)
    /\ (0 - 1) \notin Range(c1) \cup Range(c2)
    /\ Cardinality(Range(c1) \cup Range(c2)) <= k

\* C21: once the k=5 (k=7) labels of a word are assigned, every pooled
\* occurrence has one label, no label is -1, and there are at most 5 (7)
\* different labels
C21_FixedKLabelling ==
    /\ PostKMeans5 => FixedKLabelling(clusters1_km5, clusters2_km5, 5)
    /\ PostKMeans7 => FixedKLabelling(clusters1_km7, clusters2_km7, 7)

\* a pooled set of more than 7 different points, labelled with 5 and with 7
\* different labels
C21_Witness ==
    /\ PostKMeans7
    /\ Cardinality(Range(embeddings_concat)) > 7
    /\ Cardinality(Range(clusters1_km5) \cup Range(clusters2_km5)) = 5
    /\ Cardinality(Range(clusters1_km7) \cup Range(clusters2_km7)) = 7


\* the occurrences of word w that the filter keeps: what is clustered
PooledInput(w) ==
    LET r == FilterWord(bert_embeddings.val[w], w, oneEmbPerSentence)
    IN [t1 |-> r.e1, t2 |-> r.e2]

\* the rows of the table of word w
RowsOf(table, w) == {row \in Range(table) : row.word = w}

\* the labels on disk of the strategy whose file is name
PersistedLabels(name) == fs.file[name].content

SameFixedKScores(table, w1, w2) ==
    \A r1 \in RowsOf(table, w1) : \A r2 \in RowsOf(table, w2) :
        /\ r1.kmeans_5 = r2.kmeans_5
        /\ r1.kmeans_7 = r2.kmeans_7

-----------------------------------------------------------------------------
(* Cluster count *)

\* the columns of the results table
ResultColumns ==
    {"word", "aff_prop", "kmeans_5", "kmeans_7", "averaging",
     "aff_prop_clusters"}

\* the number of different labels in the two lists of a label map entry
DistinctLabels(entry) == Cardinality(Range(entry["t1"]) \cup Range(entry["t2"]))

\* C23: the cluster count of every row, in the accumulator and on disk, is
\* the number of different exemplar-based labels of that word over its two
\* slices, as recorded and as persisted; the table has one cluster count
\* column, the one of the exemplar-based strategy
C23_ClusterCount ==
    /\ DOMAIN results_dict = ResultColumns
    /\ \A row \in Range(DataFrame_from_dict(results_dict)) :
          /\ DOMAIN row = ResultColumns
          /\ row.word \in DOMAIN aff_prop_labels_dict
          /\ row.aff_prop_clusters =
                DistinctLabels(aff_prop_labels_dict[row.word])
    /\ \A row \in Range(fs.file["results"].content) :
          /\ DOMAIN row = ResultColumns
          /\ row.word \in DOMAIN PersistedLabels("aff_prop_labels") =>
                row.aff_prop_clusters =
                   DistinctLabels(PersistedLabels("aff_prop_labels")[row.word])
    /\ PostAffProp =>
          n_senses = Cardinality(Range(clusters1_aff) \cup Range(clusters2_aff))

\* a persisted row with two clusters, one of them seen in one slice only
C23_Witness ==
    \E row \in Range(fs.file["results"].content) :
        /\ row.word \in DOMAIN PersistedLabels("aff_prop_labels")
        /\ row.aff_prop_clusters = 2
        /\ LET entry == PersistedLabels("aff_prop_labels")[row.word]
           IN /\ Range(entry["t1"]) # Range(entry["t2"])
              /\ DistinctLabels(entry) = 2

\* a persisted row of a clustering that did not converge: the one label -1
C23_WitnessNotConverged ==
    \E row \in Range(fs.file["results"].content) :
        /\ row.word \in DOMAIN PersistedLabels("aff_prop_labels")
        /\ row.aff_prop_clusters = 1
        /\ Range(PersistedLabels("aff_prop_labels")[row.word]["t1"]) = {0 - 1}


-----------------------------------------------------------------------------
(* finetuning_BERT_on_semeval_corpora.py: checkpoint rotation, lines       *)
(* 414-447.  An entry checkpoint-* of args.output_dir is a record: numbered *)
(* entries are the directories checkpoint-<step>, the others are what the   *)
(* glob of line 417 finds and the regular expression of line 423 rejects.   *)

Checkpoint(n) == [numbered |-> TRUE, step |-> n]
OtherEntry    == [numbered |-> FALSE, step |-> 0]

\* variant: the newest checkpoint comes first
_sorted_checkpoints_newest_first(dir) ==
    LET steps == {e.step : e \in {x \in dir : x.numbered}}
        order == SortedSeq(steps)
    IN [k \in DOMAIN order |-> Checkpoint(order[Len(order) + 1 - k])]

\* lines 414-429 with use_mtime=False, as every call has it: the numbered
\* entries in increasing step number
_sorted_checkpoints(dir) ==
    LET steps == {e.step : e \in {x \in dir : x.numbered}}
        order == SortedSeq(steps)
    IN [k \in DOMAIN order |-> Checkpoint(order[k])]

\* lines 432-447; save_total_limit None is 0 here, both are falsy at line 433
_rotate_checkpoints(dir, save_total_limit) ==
    LET checkpoints_sorted == _sorted_checkpoints(dir)
        number_of_checkpoints_to_delete ==
            Len(checkpoints_sorted) - save_total_limit
    IN IF save_total_limit <= 0
          \/ Len(checkpoints_sorted) <= save_total_limit
       THEN [deleted |-> <<>>, dir |-> dir]
       ELSE LET to_delete ==
                    SubSeq(checkpoints_sorted, 1,
                           number_of_checkpoints_to_delete)
            IN [deleted |-> to_delete, dir |-> dir \ Range(to_delete)]

-----------------------------------------------------------------------------
(* train, lines 498-694, for one process (local_rank -1); the model, the    *)
(* loss and the log are left out, the counters and the files are kept       *)

\* the largest explored number of batches of an epoch
MaxBatches == 4

\* the largest explored --max_steps and checkpoint step to resume from
MaxSteps == 2

\* --max_steps: the default -1, or a positive number
MaxStepsArgs == {0 - 1} \cup (1..MaxSteps)

EpochArgs     == {1, 2}
GradAccumArgs == {1, 2}
SaveStepsArgs == {0, 1, 2}
SaveLimitArgs == {0, 1, 2}

\* --model_name_or_path: not an existing path, an existing model directory
\* whose name does not end in a number, or a directory checkpoint-<step>
ModelPaths ==
    {[kind |-> "absent", step |-> 0], [kind |-> "model", step |-> 0]}
    \cup {[kind |-> "checkpoint", step |-> g] : g \in 1..MaxSteps}

\* what an earlier run may have left in args.output_dir
EarlierEntries == {Checkpoint(8), Checkpoint(9), OtherEntry}

TrainArgs ==
    [max_steps : MaxStepsArgs, num_train_epochs : EpochArgs,
     gradient_accumulation_steps : GradAccumArgs,
     save_steps : SaveStepsArgs, save_total_limit : SaveLimitArgs,
     model_name_or_path : ModelPaths]

\* the state of calculate_semantic_change.py when it is not run
PipelineIdle ==
    /\ argv_language = "english"
    /\ oneEmbPerSentence = FALSE
    /\ pickle_file = [keys |-> <<>>, val |-> <<>>]
    /\ bert_embeddings = NotLoaded
    /\ target_words = <<>>
    /\ i = 0
    /\ word = <<>>
    /\ emb = <<>>
    /\ embeddings1 = <<>> /\ embeddings2 = <<>>
    /\ texts1 = <<>> /\ texts2 = <<>>
    /\ average_dist = 0
    /\ clusters1_aff = <<>> /\ clusters2_aff = <<>>
    /\ aff_prop_centroids = <<>> /\ n_senses = 0 /\ aff_prop_jsd = 0
    /\ preference = None
    /\ clusters1_km5 = <<>> /\ clusters2_km5 = <<>>
    /\ kmeans_5_centroids = <<>> /\ kmeans5_jsd = 0
    /\ clusters1_km7 = <<>> /\ clusters2_km7 = <<>>
    /\ kmeans_7_centroids = <<>> /\ kmeans7_jsd = 0
    /\ results_dict = EmptyResults
    /\ sentence_dict = <<>>
    /\ aff_prop_labels_dict = <<>> /\ aff_prop_centroids_dict = <<>>
    /\ kmeans_5_labels_dict = <<>> /\ kmeans_5_centroids_dict = <<>>
    /\ kmeans_7_labels_dict = <<>> /\ kmeans_7_centroids_dict = <<>>
    /\ fs = EmptyDir

InitTrain ==
    /\ PipelineIdle
    /\ TruncateIdle
    /\ pc = "train"
    /\ exc = "none"
    /\ train_args \in TrainArgs
    /\ len_train_dataloader \in 1..MaxBatches
    /\ args_output_dir \in SUBSET EarlierEntries
    /\ num_train_epochs = train_args.num_train_epochs
    /\ t_total = 0
    /\ global_step = 0
    /\ epochs_trained = 0
    /\ steps_trained_in_current_epoch = 0
    /\ epoch = 0 /\ step = 0
    /\ output_dir = 0
    /\ checkpoints_to_be_deleted = <<>>
    /\ optimizer_steps = 0
    /\ skipped_batches = 0
    /\ optimizer_pt = {}

\* len(train_dataloader) // args.gradient_accumulation_steps
updates_per_epoch ==
    len_train_dataloader \div train_args.gradient_accumulation_steps

TrainFrame == UNCHANGED <<pipeline, truncvars, train_args,
                          len_train_dataloader>>

\* lines 518-522
TrainSetup ==
    /\ pc = "train"
    /\ IF train_args.max_steps > 0
       THEN IF updates_per_epoch = 0
            THEN /\ exc' = "ZeroDivisionError"
                 /\ pc' = "crashed"
                 /\ UNCHANGED <<t_total, num_train_epochs>>
            ELSE /\ t_total' = train_args.max_steps
                 /\ num_train_epochs' =
                       train_args.max_steps \div updates_per_epoch + 1
                 /\ pc' = "resume"
                 /\ exc' = exc
       ELSE /\ t_total' = updates_per_epoch * num_train_epochs
            /\ num_train_epochs' = num_train_epochs
            /\ pc' = "resume"
            /\ exc' = exc
    /\ UNCHANGED <<args_output_dir, global_step, epochs_trained,
                   steps_trained_in_current_epoch, epoch, step, output_dir,
                   checkpoints_to_be_deleted, optimizer_steps,
                   skipped_batches, optimizer_pt>>
    /\ TrainFrame

\* lines 579-611: the counters, the resume from a checkpoint and the start
\* of train_iterator at epochs_trained
ResumeFromCheckpoint ==
    /\ pc = "resume"
    /\ LET path == train_args.model_name_or_path IN
       IF path.kind = "checkpoint"
       THEN /\ global_step' = path.step
            /\ IF updates_per_epoch = 0
               THEN /\ exc' = "ZeroDivisionError"
                    /\ pc' = "crashed"
                    /\ UNCHANGED <<epochs_trained,
                                   steps_trained_in_current_epoch, epoch>>
               ELSE /\ epochs_trained' = path.step \div updates_per_epoch
                    /\ steps_trained_in_current_epoch' =
                          path.step % updates_per_epoch
                    /\ epoch' = path.step \div updates_per_epoch
                    /\ pc' = "for_epoch"
                    /\ exc' = exc
       ELSE /\ global_step' = 0
            /\ epochs_trained' = 0
            /\ steps_trained_in_current_epoch' = 0
            /\ epoch' = 0
            /\ pc' = "for_epoch"
            /\ exc' = exc
    /\ UNCHANGED <<args_output_dir, num_train_epochs, t_total, step,
                   output_dir, checkpoints_to_be_deleted, optimizer_steps,
                   skipped_batches, optimizer_pt>>
    /\ TrainFrame

\* line 611: for _ in train_iterator; epoch is the next value of the range
NextEpoch ==
    /\ pc = "for_epoch"
    /\ IF epoch < num_train_epochs
       THEN /\ step' = 0
            /\ pc' = "for_batch"
       ELSE /\ step' = step
            /\ pc' = "return"
    /\ UNCHANGED <<exc, args_output_dir, num_train_epochs, t_total,
                   global_step, epochs_trained,
                   steps_trained_in_current_epoch, epoch, output_dir,
                   checkpoints_to_be_deleted, optimizer_steps,
                   skipped_batches, optimizer_pt>>
    /\ TrainFrame

\* lines 613-662: one batch, up to the decision to save a checkpoint
NextBatch ==
    /\ pc = "for_batch"
    /\ IF step >= len_train_dataloader
       THEN /\ pc' = "end_epoch"
            /\ UNCHANGED <<step, steps_trained_in_current_epoch,
                           skipped_batches, optimizer_steps, global_step>>
       ELSE IF steps_trained_in_current_epoch > 0
       THEN /\ steps_trained_in_current_epoch' =
                  steps_trained_in_current_epoch - 1
            /\ skipped_batches' = skipped_batches + 1
            /\ step' = step + 1
            /\ pc' = "for_batch"
            /\ UNCHANGED <<optimizer_steps, global_step>>
       ELSE IF (step + 1) % train_args.gradient_accumulation_steps = 0
       THEN /\ optimizer_steps' = optimizer_steps + 1
            /\ global_step' = global_step + 1
            /\ pc' = IF /\ train_args.save_steps > 0
                        /\ (global_step + 1) % train_args.save_steps = 0
                     THEN "save_checkpoint"
                     ELSE "check_max_steps"
            /\ UNCHANGED <<step, steps_trained_in_current_epoch,
                           skipped_batches>>
       ELSE /\ pc' = "check_max_steps"
            /\ UNCHANGED <<step, steps_trained_in_current_epoch,
                           skipped_batches, optimizer_steps, global_step>>
    /\ UNCHANGED <<exc, args_output_dir, num_train_epochs, t_total,
                   epochs_trained, epoch, output_dir,
                   checkpoints_to_be_deleted, optimizer_pt>>
    /\ TrainFrame

\* lines 663-676: makedirs(exist_ok=True) and the model files
SaveCheckpoint ==
    /\ pc = "save_checkpoint"
    /\ output_dir' = global_step
    /\ args_output_dir' = args_output_dir \cup {Checkpoint(global_step)}
    /\ pc' = "rotate"
    /\ UNCHANGED <<exc, num_train_epochs, t_total, global_step,
                   epochs_trained, steps_trained_in_current_epoch, epoch,
                   step, checkpoints_to_be_deleted, optimizer_steps,
                   skipped_batches, optimizer_pt>>
    /\ TrainFrame

\* line 678
RotateCheckpoints ==
    /\ pc = "rotate"
    /\ LET r == _rotate_checkpoints(args_output_dir,
                                    train_args.save_total_limit)
       IN /\ checkpoints_to_be_deleted' = r.deleted
          /\ args_output_dir' = r.dir
          /\ optimizer_pt' = optimizer_pt \ {e.step : e \in Range(r.deleted)}
    /\ pc' = "save_optimizer"
    /\ UNCHANGED <<exc, num_train_epochs, t_total, global_step,
                   epochs_trained, steps_trained_in_current_epoch, epoch,
                   step, output_dir, optimizer_steps, skipped_batches>>
    /\ TrainFrame

\* lines 680-682: torch.save into the checkpoint directory, which fails when
\* the directory is not there
SaveOptimizer ==
    /\ pc = "save_optimizer"
    /\ IF Checkpoint(output_dir) \in args_output_dir
       THEN /\ optimizer_pt' = optimizer_pt \cup {output_dir}
            /\ pc' = "check_max_steps"
            /\ exc' = exc
       ELSE /\ optimizer_pt' = optimizer_pt
            /\ pc' = "crashed"
            /\ exc' = "FileNotFoundError"
    /\ UNCHANGED <<args_output_dir, num_train_epochs, t_total, global_step,
                   epochs_trained, steps_trained_in_current_epoch, epoch,
                   step, output_dir, checkpoints_to_be_deleted,
                   optimizer_steps, skipped_batches>>
    /\ TrainFrame

\* lines 684-686, the end of the body of the batch loop
CheckMaxSteps ==
    /\ pc = "check_max_steps"
    /\ IF train_args.max_steps > 0 /\ global_step > train_args.max_steps
       THEN /\ pc' = "end_epoch"
            /\ step' = step
       ELSE /\ pc' = "for_batch"
            /\ step' = step + 1
    /\ UNCHANGED <<exc, args_output_dir, num_train_epochs, t_total,
                   global_step, epochs_trained,
                   steps_trained_in_current_epoch, epoch, output_dir,
                   checkpoints_to_be_deleted, optimizer_steps,
                   skipped_batches, optimizer_pt>>
    /\ TrainFrame

\* lines 687-689, the end of the body of the epoch loop
EndEpoch ==
    /\ pc = "end_epoch"
    /\ IF train_args.max_steps > 0 /\ global_step > train_args.max_steps
       THEN /\ pc' = "return"
            /\ epoch' = epoch
       ELSE /\ pc' = "for_epoch"
            /\ epoch' = epoch + 1
    /\ UNCHANGED <<exc, args_output_dir, num_train_epochs, t_total,
                   global_step, epochs_trained,
                   steps_trained_in_current_epoch, step, output_dir,
                   checkpoints_to_be_deleted, optimizer_steps,
                   skipped_batches, optimizer_pt>>
    /\ TrainFrame

\* line 694: return global_step, tr_loss / global_step
ReturnFromTrain ==
    /\ pc = "return"
    /\ IF global_step = 0
       THEN /\ exc' = "ZeroDivisionError"
            /\ pc' = "crashed"
       ELSE /\ exc' = exc
            /\ pc' = "returned"
    /\ UNCHANGED trainvars
    /\ UNCHANGED <<pipeline, truncvars>>

NextTrain ==
    \/ TrainSetup
    \/ ResumeFromCheckpoint
    \/ NextEpoch
    \/ NextBatch
    \/ SaveCheckpoint
    \/ RotateCheckpoints
    \/ SaveOptimizer
    \/ CheckMaxSteps
    \/ EndEpoch
    \/ ReturnFromTrain

SpecTrain == InitTrain /\ [][NextTrain]_vars


-----------------------------------------------------------------------------
(* Properties of train and of the checkpoint rotation *)

\* the numbered checkpoint directories of args.output_dir
NumberedCheckpoints == {e \in args_output_dir : e.numbered}

\* the position right after _rotate_checkpoints returned
PostRotate == pc = "save_optimizer"

StartedFromZero == train_args.model_name_or_path.kind # "checkpoint"

\* C25 (as claimed): a run with max_steps > 0 that started from step 0
\* returns after exactly max_steps optimizer updates, with global_step equal
\* to max_steps
C25_ExactlyMaxSteps ==
    (pc = "returned" /\ train_args.max_steps > 0 /\ StartedFromZero) =>
        /\ optimizer_steps = train_args.max_steps
        /\ global_step = train_args.max_steps


-----------------------------------------------------------------------------
(* truncate_sequences, lines 340-382 *)

\* the longest explored token sequence
MaxTokens == 3

TokenIds == {1, 2}

TokenSeqs == UNION { [1..n -> TokenIds] : n \in 0..MaxTokens }

TruncationStrategies ==
    {"longest_first", "only_first", "only_second", "do_not_truncate",
     "only_longest"}

\* seq[:-n] and seq[-n:] for 0 < n
DropLast(seq, n) == SubSeq(seq, 1, Len(seq) - Min(n, Len(seq)))
TakeLast(seq, n) == SubSeq(seq, Len(seq) - Min(n, Len(seq)) + 1, Len(seq))

\* variant: on a tie the first sequence is shortened
RECURSIVE longest_first_ids_on_tie(_, _, _, _)
longest_first_ids_on_tie(s, pair, n, overflowing_tokens) ==
    IF n = 0
    THEN [exc |-> "none", ids |-> s, pair_ids |-> pair,
          overflowing_tokens |-> overflowing_tokens]
    ELSE IF ~ pair.given \/ Len(s) >= Len(pair.value)
    THEN IF s = <<>>
         THEN [exc |-> "IndexError", ids |-> s, pair_ids |-> pair,
               overflowing_tokens |-> overflowing_tokens]
         ELSE longest_first_ids_on_tie(DropLast(s, 1), pair, n - 1,
                                       <<s[Len(s)]>> \o overflowing_tokens)
    ELSE longest_first_ids_on_tie(s, Given(DropLast(pair.value, 1)), n - 1,
                                  overflowing_tokens)

\* lines 356-361: the loop of strategy longest_first, n iterations to go
RECURSIVE longest_first(_, _, _, _)
longest_first(s, pair, n, overflowing_tokens) ==
    IF n = 0
    THEN [exc |-> "none", ids |-> s, pair_ids |-> pair,
          overflowing_tokens |-> overflowing_tokens]
    ELSE IF ~ pair.given \/ Len(s) > Len(pair.value)
    THEN IF s = <<>>
         THEN [exc |-> "IndexError", ids |-> s, pair_ids |-> pair,
               overflowing_tokens |-> overflowing_tokens]
         ELSE longest_first(DropLast(s, 1), pair, n - 1,
                            <<s[Len(s)]>> \o overflowing_tokens)
    ELSE longest_first(s, Given(DropLast(pair.value, 1)), n - 1,
                       overflowing_tokens)

Raised(e, s, pair) ==
    [exc |-> e, ids |-> s, pair_ids |-> pair, overflowing_tokens |-> <<>>]

\* lines 340-382
truncate_sequences(s, pair, n, strategy, window) ==
    IF n <= 0
    THEN [exc |-> "none", ids |-> s, pair_ids |-> pair,
          overflowing_tokens |-> <<>>]
    ELSE CASE strategy = "longest_first" ->
                LET r == longest_first(s, pair, n, <<>>)
                    window_len == Min(Len(r.ids), window)
                IN IF r.exc = "none" /\ window_len > 0
                   THEN [r EXCEPT !.overflowing_tokens =
                                     TakeLast(r.ids, window_len) \o @]
                   ELSE r
           [] strategy = "only_first" ->
                IF ~ (Len(s) > n) THEN Raised("AssertionError", s, pair)
                ELSE [exc |-> "none", ids |-> DropLast(s, n),
                      pair_ids |-> pair,
                      overflowing_tokens |->
                          TakeLast(s, Min(Len(s), window + n))]
           [] strategy = "only_second" ->
                IF ~ (pair.given /\ Len(pair.value) > n)
                THEN Raised("AssertionError", s, pair)
                ELSE [exc |-> "none", ids |-> s,
                      pair_ids |-> Given(DropLast(pair.value, n)),
                      overflowing_tokens |->
                          TakeLast(pair.value,
                                   Min(Len(pair.value), window + n))]
           [] OTHER -> Raised("ValueError", s, pair)

InitTruncate ==
    /\ PipelineIdle
    /\ TrainIdle
    /\ pc = "truncate_sequences"
    /\ exc = "none"
    /\ ids \in TokenSeqs
    /\ pair_ids \in {NoSequence} \cup {Given(q) : q \in TokenSeqs}
    /\ num_tokens_to_remove \in 0..(2 * MaxTokens + 1)
    /\ truncation_strategy \in TruncationStrategies
    /\ stride \in {0, 1}
    /\ truncated = [exc |-> "none", ids |-> <<>>, pair_ids |-> NoSequence,
                    overflowing_tokens |-> <<>>]

\* one call of truncate_sequences
CallTruncate ==
    /\ pc = "truncate_sequences"
    /\ truncated' = truncate_sequences(ids, pair_ids, num_tokens_to_remove,
                                       truncation_strategy, stride)
    /\ pc' = "truncated"
    /\ UNCHANGED <<exc, pipeline, trainvars, ids, pair_ids,
                   num_tokens_to_remove, truncation_strategy, stride>>

NextTruncate == CallTruncate

SpecTruncate == InitTruncate /\ [][NextTruncate]_vars

\* the length of an optional sequence, 0 when absent
LenOpt(pair) == IF pair.given THEN Len(pair.value) ELSE 0

IsPrefix(p, seq) == Len(p) <= Len(seq) /\ p = SubSeq(seq, 1, Len(p))

\* the numbers of tokens taken from the two sequences
removed_ids  == Len(ids) - Len(truncated.ids)
removed_pair == LenOpt(pair_ids) - LenOpt(truncated.pair_ids)

\* what a call with longest_first that removes n tokens must return: kept
\* prefixes, n tokens gone, the first sequence shortened only to a length
\* not below the pair's, the pair only to a length not more than one below
\* the first's (the last token taken from a sequence was taken while it was
\* the longer one, the pair on a tie), and with stride 0 the overflow is the
\* removed end of the first sequence
LongestFirstResult ==
    /\ truncated.exc = "none"
    /\ IsPrefix(truncated.ids, ids)
    /\ truncated.pair_ids.given = pair_ids.given
    /\ pair_ids.given => IsPrefix(truncated.pair_ids.value, pair_ids.value)
    /\ removed_ids + removed_pair = num_tokens_to_remove
    /\ (removed_ids > 0 /\ pair_ids.given) =>
          Len(truncated.ids) >= LenOpt(truncated.pair_ids)
    /\ removed_pair > 0 =>
          LenOpt(truncated.pair_ids) >= Len(truncated.ids) - 1
    /\ stride = 0 =>
          truncated.overflowing_tokens =
              SubSeq(ids, Len(truncated.ids) + 1, Len(ids))

LongestFirstCall ==
    /\ pc = "truncated"
    /\ truncation_strategy = "longest_first"
    /\ num_tokens_to_remove > 0

-----------------------------------------------------------------------------
(* Resuming train from a checkpoint *)

\* train was resumed from the checkpoint of step model_name_or_path.step
Resumed == train_args.model_name_or_path.kind = "checkpoint"

\* the batches of the interrupted epoch that the checkpoint had trained
batches_already_trained ==
    train_args.gradient_accumulation_steps
        * (train_args.model_name_or_path.step % updates_per_epoch)

\* the first resumed epoch has run to its end
FirstResumedEpochOver ==
    /\ Resumed
    /\ epochs_trained < num_train_epochs
    /\ pc \in {"end_epoch", "return", "returned"}

\* C27 (as claimed): a run resumed from the checkpoint of step g has passed
\* over exactly the batches that the interrupted epoch had trained,
\* gradient_accumulation_steps * (g mod updates per epoch), and global_step
\* is g plus the updates made since
C27_ResumeSkipsTrainedBatches ==
    FirstResumedEpochOver =>
        /\ skipped_batches = batches_already_trained
        /\ global_step = train_args.model_name_or_path.step + optimizer_steps


\* C28 (as claimed): when optimizer.pt and scheduler.pt are about to be
\* written, after the rotation, the directory of the checkpoint just saved
\* is still in args.output_dir, and the write never fails
C28_SavedCheckpointSurvivesRotation ==
    /\ PostRotate => Checkpoint(output_dir) \in args_output_dir
    /\ exc # "FileNotFoundError"


-----------------------------------------------------------------------------
(* The accumulators across words *)

\* every entry of the dict before is in the dict after, with the same value
DictKept(before, after) ==
    \A w \in DOMAIN before : w \in DOMAIN after /\ after[w] = before[w]

\* the dict after has no new key but w
OnlyAdds(before, after, w) == (DOMAIN after) \subseteq (DOMAIN before) \cup {w}

PickleNames == FileNames \ {"results"}

\* one step of the script leaves what was recorded for earlier words alone:
\* each accumulator and each file keeps its entries and rows with their
\* values, and gains at most the entry or row of the current word
AccumulatorFrame ==
    /\ DictKept(sentence_dict, sentence_dict')
    /\ OnlyAdds(sentence_dict, sentence_dict', word')
    /\ DictKept(aff_prop_labels_dict, aff_prop_labels_dict')
    /\ OnlyAdds(aff_prop_labels_dict, aff_prop_labels_dict', word')
    /\ DictKept(aff_prop_centroids_dict, aff_prop_centroids_dict')
    /\ OnlyAdds(aff_prop_centroids_dict, aff_prop_centroids_dict', word')
    /\ DictKept(kmeans_5_labels_dict, kmeans_5_labels_dict')
    /\ OnlyAdds(kmeans_5_labels_dict, kmeans_5_labels_dict', word')
    /\ DictKept(kmeans_5_centroids_dict, kmeans_5_centroids_dict')
    /\ OnlyAdds(kmeans_5_centroids_dict, kmeans_5_centroids_dict', word')
    /\ DictKept(kmeans_7_labels_dict, kmeans_7_labels_dict')
    /\ OnlyAdds(kmeans_7_labels_dict, kmeans_7_labels_dict', word')
    /\ DictKept(kmeans_7_centroids_dict, kmeans_7_centroids_dict')
    /\ OnlyAdds(kmeans_7_centroids_dict, kmeans_7_centroids_dict', word')
    /\ \A col \in ResultColumns :
          /\ IsPrefix(results_dict[col], results_dict'[col])
          /\ Len(results_dict'[col]) <= Len(results_dict[col]) + 1
    /\ Len(results_dict'.word) = Len(results_dict.word) + 1 =>
          results_dict'.word[Len(results_dict'.word)] = word'
    /\ \A row \in Range(fs.file["results"].content) :
          row \in Range(fs'.file["results"].content)
    /\ \A row \in Range(fs'.file["results"].content) :
          row \in Range(fs.file["results"].content) \/ row.word = word'
    /\ \A name \in PickleNames :
          /\ DictKept(fs.file[name].content, fs'.file[name].content)
          /\ OnlyAdds(fs.file[name].content, fs'.file[name].content, word')

\* C29: every step of the run only adds the current word's row and entries
\* to the accumulators and to the files; what was recorded for earlier words
\* stays, so a word's row has the same scores in every later snapshot
C29_AccumulatorFrame == [][AccumulatorFrame]_vars

\* the second word has been written next to the first in every file, and
\* the two have different scores and different sentences
C29_Witness ==
    /\ pc = "for_word"
    /\ i = 2
    /\ Len(fs.file["results"].content) = 2
    /\ \E r1, r2 \in Range(fs.file["results"].content) :
          /\ r1.word = pickle_file.keys[1] /\ r2.word = pickle_file.keys[2]
          /\ r1.averaging # r2.averaging
          /\ r1.aff_prop # r2.aff_prop
    /\ \A name \in PickleNames :
          DOMAIN fs.file[name].content = Range(pickle_file.keys)
    /\ sentence_dict[pickle_file.keys[1]] # sentence_dict[pickle_file.keys[2]]


-----------------------------------------------------------------------------
(* Sentences and labels side by side *)

LabelFileNames == {"aff_prop_labels", "kmeans_5_labels", "kmeans_7_labels"}

\* the entry of word w in a label map has, slice by slice, as many labels as
\* the entry of w in a sentence map has sentences
SameLengths(labels, sentences, w) ==
    \A ts \in TimeSlices : Len(labels[w][ts]) = Len(sentences[w][ts])

\* C30: for every word and slice, each of the three label maps holds as many
\* labels as the sentence map holds sentences, in the accumulators and in
\* the files; and the labels a strategy has just given to the current word
\* are as many as its kept sentences
C30_ParallelAlignment ==
    /\ \A w \in DOMAIN sentence_dict :
          /\ w \in DOMAIN aff_prop_labels_dict =>
                SameLengths(aff_prop_labels_dict, sentence_dict, w)
          /\ w \in DOMAIN kmeans_5_labels_dict =>
                SameLengths(kmeans_5_labels_dict, sentence_dict, w)
          /\ w \in DOMAIN kmeans_7_labels_dict =>
                SameLengths(kmeans_7_labels_dict, sentence_dict, w)
    /\ \A w \in DOMAIN PersistedSentences : \A name \in LabelFileNames :
          w \in DOMAIN PersistedLabels(name) =>
              SameLengths(PersistedLabels(name), PersistedSentences, w)
    /\ PostAffProp =>
          /\ Len(clusters1_aff) = Len(texts1)
          /\ Len(clusters2_aff) = Len(texts2)
    /\ PostKMeans5 =>
          /\ Len(clusters1_km5) = Len(texts1)
          /\ Len(clusters2_km5) = Len(texts2)
    /\ PostKMeans7 =>
          /\ Len(clusters1_km7) = Len(texts1)
          /\ Len(clusters2_km7) = Len(texts2)

\* word w is in the sentence file and in every label file, with as many
\* labels as sentences in slice 1
OnDiskAligned(w) ==
    /\ w \in DOMAIN PersistedSentences
    /\ \A name \in LabelFileNames :
          /\ w \in DOMAIN PersistedLabels(name)
          /\ Len(PersistedLabels(name)[w]["t1"])
                = Len(PersistedSentences[w]["t1"])

\* two deduplicated words on disk: one with slices of different sizes, one
\* with several different labels in its first slice
C30_Witness ==
    /\ pc = "for_word"
    /\ oneEmbPerSentence
    /\ \E w1, w2 \in DOMAIN PersistedSentences :
          /\ OnDiskAligned(w1) /\ OnDiskAligned(w2)
          /\ Len(PersistedSentences[w1]["t1"]) # Len(PersistedSentences[w1]["t2"])
          /\ Len(PersistedSentences[w1]["t1"]) < Len(bert_embeddings.val[w1]["t1"])
          /\ \A name \in LabelFileNames :
                Cardinality(Range(PersistedLabels(name)[w2]["t1"])) >= 2

====
